---- MODULE Spec2Model ----
(***************************************************************************)
(* Conversational-memory engine of neko-ai: the FAISS vector store         *)
(* (core/memory_store.py), the Neo4j graph store (db/neo4j_store.py), the  *)
(* MySQL history store (db/mysql_store.py) and the orchestration in        *)
(* services/memory_service.py, services/chat_service.py and                *)
(* services/conversation_service.py.                                       *)
(*                                                                         *)
(* Representation.                                                         *)
(*  - A text is a sequence of tokens.  "U" is the literal prefix           *)
(*    "用户: ", "D" is the literal delimiter "\n助手: "; every other token  *)
(*    is an ordinary word.                                                 *)
(*  - An embedding is a point on a line; the L2 index returns squared      *)
(*    distances, here counted in units of 1/DistScale.                     *)
(*  - A similarity is a fixed-point number with SimOne = 1.0, so 0.95 is   *)
(*    9500 and 0.7 is 7000.                                                *)
(*  - A timestamp is the reading of the wall clock (an integer number of   *)
(*    microseconds); the empty timestamp "" is NoTimestamp.                *)
(*  - Python's None for a conversation id is None (0); the ids MySQL       *)
(*    hands out are positive AUTO_INCREMENT keys.                          *)
(***************************************************************************)
EXTENDS Integers, Sequences, FiniteSets, TLC

\* ------------------------------------------------------------------ bounds
MaxSaves == 2
MaxConversations == 2
MaxGraphCalls == 3
MaxCandidates == 2
MaxAdds == 4
MaxK == 2
MaxBatch == 2
MaxTurns == 4
MaxMemories == 2
MaxConcAdds == 2
MaxClock == 11
MaxStamps == 2
TimestampDigits == 2
MaxFaultTurns == 2
MaxDepth == 3
MaxRelatedCalls == 2
CONVERSATION_CONTEXT_WINDOW_SIZE == 3

\* ------------------------------------------------------- program constants
DedupCutoff == 9500
RETRIEVAL_MIN_SIMILARITY == 7000
CrossMargin == 1000
CrossFloor == 8000
MaxPathLen == 10
SaveSearchK == 10
OverFetch == 3
PreviewLen == 100
TopicTopK == 3
RetrieveFactor == 2
RetrieveFloor == 10

\* --------------------------------------------------------- units and names
SimOne == 100 * 100
DistScale == 19 * 4
None == 1 - 1
NoTimestamp == 1 - 1
\* an embedding argument that is not a vector: a 0-dimensional array, as
\* np.array makes of a plain number or of None
Scalar == 0 - 1

ConvIds == 1..MaxConversations
ConvArgs == {None} \cup ConvIds

UserMessages == {<<"a">>, <<"b">>, <<"d">>, <<"d", "D", "e">>}
AiResponses == {<<"x">>}
Keywords == {"a", "d"}

\* ------------------------------------------------------------ pure helpers
Max2(a, b) == IF a >= b THEN a ELSE b
Min2(a, b) == IF a <= b THEN a ELSE b

Range(s) == {s[i] : i \in 1..Len(s)}

RECURSIVE SeqFilter(_, _)
\* [x for x in s if x in keep], order preserved
SeqFilter(s, keep) ==
    IF s = <<>> THEN <<>>
    ELSE IF Head(s) \in keep THEN <<Head(s)>> \o SeqFilter(Tail(s), keep)
         ELSE SeqFilter(Tail(s), keep)

CountTok(s, t) == Cardinality({i \in 1..Len(s) : s[i] = t})

\* f"用户: {user_message}\n助手: {ai_response}"
FullText(um, ar) == <<"U">> \o um \o <<"D">> \o ar

\* text.split("\n助手: "): the number of parts is one more than the number
\* of delimiters in the text
NumParts(text) == CountTok(text, "D") + 1

FirstDelim(text) == CHOOSE i \in 1..Len(text) :
                        text[i] = "D" /\ \A j \in 1..(i - 1) : text[j] # "D"

\* parts[0].replace("用户: ", "") and parts[1], defined when NumParts = 2
ParsedUser(text) ==
    SeqFilter(SubSeq(text, 1, FirstDelim(text) - 1),
              Range(text) \ {"U"})
ParsedAi(text) == SubSeq(text, FirstDelim(text) + 1, Len(text))

\* The embedding provider: a fixed function of the text (first word of the
\* turn decides the point).
Embed(text) ==
    LET w == IF text[1] = "U" THEN text[2] ELSE text[1]
    IN  CASE w = "a" -> 0
          [] w = "b" -> 2
          [] OTHER   -> 6

\* squared L2 distance between two points, in units of 1/DistScale
Distance(p, q) == (p - q) * (p - q)

\* similarity = 1.0 / (1.0 + distance)
Similarity(d) == (SimOne * DistScale) \div (DistScale + d)

\* user_message[:100] + "..." if len(user_message) > 100 else user_message
Preview(s) == IF Len(s) > PreviewLen
              THEN SubSeq(s, 1, PreviewLen) \o <<"...">>
              ELSE s

\* jieba keyword extraction: the first top_k words of the text in order,
\* or the sentinel topic (written "uncategorized" here) when there is none
Words(s) == SeqFilter(s, Range(s) \ {"U", "D"})
extract_topic(text) ==
    LET kw == Words(text)
    IN  IF kw = <<>> THEN <<"uncategorized">>
        ELSE SubSeq(kw, 1, Min2(Len(kw), TopicTopK))

Memory(um, ar, ts, sim, conv) ==
    [user_message |-> um, ai_response |-> ar, timestamp |-> ts,
     similarity |-> sim, conversation_id |-> conv]

\* ------------------------------------------------------------- vector store
\* FAISSMemoryStore.add_text: the record is appended to the record list and
\* the vector to the index
add_text(st, text, embedding, timestamp, conversation_id) ==
    [texts |-> Append(st.texts, [text |-> text, timestamp |-> timestamp,
                                 conversation_id |-> conversation_id]),
     index |-> Append(st.index, embedding)]

RECURSIVE NearestFirst(_, _, _)
\* the orders of the entries in rest with no entry before a nearer one
NearestFirst(index, q, rest) ==
    IF rest = {} THEN {<<>>}
    ELSE UNION {{<<i>> \o o : o \in NearestFirst(index, q, rest \ {i})} :
                i \in {j \in rest : \A m \in rest :
                          Distance(index[j], q) <= Distance(index[m], q)}}

\* index.search: the orders in which the exact L2 index may hand back its
\* entries, nearest first; entries at equal distance come in any order
FaissOrders(index, q) == NearestFirst(index, q, 1..Len(index))

RECURSIVE InsertBySim(_, _)
\* insert m behind every entry whose similarity is at least m's
InsertBySim(sorted, m) ==
    IF sorted = <<>> THEN <<m>>
    ELSE IF Head(sorted).similarity >= m.similarity
         THEN <<Head(sorted)>> \o InsertBySim(Tail(sorted), m)
         ELSE <<m>> \o sorted

RECURSIVE SortBySimDesc(_)
\* sorted(xs, key=lambda x: x.similarity, reverse=True): stable
SortBySimDesc(xs) ==
    IF xs = <<>> THEN <<>>
    ELSE InsertBySim(SortBySimDesc(SubSeq(xs, 1, Len(xs) - 1)), xs[Len(xs)])

RECURSIVE SearchCollect(_, _, _, _, _, _)
\* the loop over indices[0] of FAISSMemoryStore.search
SearchCollect(st, q, conversation_id, order, i, search_k) ==
    IF i > search_k THEN <<>>
    ELSE
      LET idx  == order[i]
          rest == SearchCollect(st, q, conversation_id, order, i + 1, search_k)
      IN  IF idx > Len(st.texts) THEN rest
          ELSE
            LET item == st.texts[idx]
                sim  == Similarity(Distance(st.index[idx], q))
            IN  IF conversation_id # None
                   /\ item.conversation_id # conversation_id THEN rest
                ELSE IF NumParts(item.text) # 2 THEN rest
                ELSE <<Memory(ParsedUser(item.text), ParsedAi(item.text),
                              item.timestamp, sim, item.conversation_id)>>
                     \o rest

\* a search that hands back everything it collected
search_untruncated(st, q, k, conversation_id, order) ==
    IF Len(st.index) = 0 THEN <<>>
    ELSE SortBySimDesc(
             SearchCollect(st, q, conversation_id, order, 1,
                           Min2(k * OverFetch, Len(st.index))))

\* FAISSMemoryStore.search, for one order of the index's answer
search(st, q, k, conversation_id, order) ==
    IF Len(st.index) = 0 THEN <<>>
    ELSE
      LET search_k == Min2(k * OverFetch, Len(st.index))
          found    == SortBySimDesc(
                         SearchCollect(st, q, conversation_id, order, 1, search_k))
      IN  SubSeq(found, 1, Min2(k, Len(found)))

RECURSIVE KeepOthers(_, _, _)
\* the indices of the records clear_memory retains, in order
KeepOthers(texts, conversation_id, i) ==
    IF i > Len(texts) THEN <<>>
    ELSE IF texts[i].conversation_id # conversation_id
         THEN <<i>> \o KeepOthers(texts, conversation_id, i + 1)
         ELSE KeepOthers(texts, conversation_id, i + 1)

\* FAISSMemoryStore.clear_memory
clear_memory(st, conversation_id) ==
    IF conversation_id = None
    THEN [texts |-> <<>>, index |-> <<>>]
    ELSE
      LET keep  == KeepOthers(st.texts, conversation_id, 1)
          keepv == SeqFilter(keep, {i \in 1..Len(st.index) : TRUE})
      IN  [texts |-> [j \in 1..Len(keep) |-> st.texts[keep[j]]],
           index |-> [j \in 1..Len(keepv) |-> st.index[keepv[j]]]]

\* FAISSMemoryStore.get_statistics()["count"]
faiss_count(st) == Len(st.texts)

\* FAISSMemoryStore.get_memory_by_timestamp: the first record of the
\* timestamp whose text splits into exactly two parts, parsed; <<>> for None
faiss_get_memory_by_timestamp(st, timestamp) ==
    LET hits == {i \in 1..Len(st.texts) :
                   /\ st.texts[i].timestamp = timestamp
                   /\ NumParts(st.texts[i].text) = 2}
    IN  IF hits = {} THEN <<>>
        ELSE LET item == st.texts[CHOOSE i \in hits : \A j \in hits : i <= j]
             IN  <<[user_message |-> ParsedUser(item.text),
                    ai_response |-> ParsedAi(item.text),
                    timestamp |-> timestamp,
                    conversation_id |-> item.conversation_id]>>

\* FAISSMemoryStore.add_text as a whole, for whatever embedding argument it
\* is given: the record is appended first; a 0-dimensional embedding then
\* makes embedding.shape[1] raise, the handler of the exception returns
\* False, and the index is left as it was
add_text_result(st, text, embedding, timestamp, conversation_id) ==
    IF embedding = Scalar
    THEN [store |-> [texts |-> Append(st.texts,
                                 [text |-> text, timestamp |-> timestamp,
                                  conversation_id |-> conversation_id]),
                     index |-> st.index],
          ok |-> FALSE]
    ELSE [store |-> add_text(st, text, embedding, timestamp, conversation_id),
          ok |-> TRUE]

\* FAISSMemoryStore.add_texts_batch: batch is the zip of texts, timestamps
\* and conversation_ids, embeddings the rows of the matrix (<<Scalar>> for a
\* 0-dimensional argument).  The
\* shape test comes before the records are appended, so a 0-dimensional
\* argument changes nothing; otherwise every record of the zip and every row
\* of the matrix is added, however many there are of each.
add_texts_batch(st, batch, embeddings) ==
    IF embeddings = <<Scalar>>
    THEN [store |-> st, ok |-> FALSE]
    ELSE [store |-> [texts |-> st.texts \o batch,
                     index |-> st.index \o embeddings],
          ok |-> TRUE]

\* -------------------------------------------------------------- graph store
\* A graph is [nodes, edges]: Memory nodes keyed by timestamp and directed
\* SIMILAR_TO relationships [src, dst, similarity, cross_conversation].
NodeTimestamps(g) == {n.timestamp : n \in g.nodes}

Neighbours(g, S) ==
    {e.dst : e \in {x \in g.edges : x.src \in S}}
    \cup {e.src : e \in {x \in g.edges : x.dst \in S}}

RECURSIVE ReachWithin(_, _, _)
\* the nodes joined to a node of S by an undirected path of 1..depth
\* relationships
ReachWithin(g, S, depth) ==
    IF depth = 0 THEN {}
    ELSE LET next == Neighbours(g, S)
         IN  next \cup ReachWithin(g, next, depth - 1)

\* a path test that sees a direct relationship only
path_exists_direct(g, timestamp1, timestamp2) ==
    /\ timestamp1 \in NodeTimestamps(g)
    /\ timestamp2 \in NodeTimestamps(g)
    /\ timestamp2 \in Neighbours(g, {timestamp1})

\* MATCH path = (m1)-[r:SIMILAR_TO*1..10]-(m2) ... count(path) > 0
path_exists(g, timestamp1, timestamp2) ==
    /\ timestamp1 \in NodeTimestamps(g)
    /\ timestamp2 \in NodeTimestamps(g)
    /\ timestamp2 \in ReachWithin(g, {timestamp1}, MaxPathLen)

\* the effective threshold for one candidate
actual_threshold(similarity_threshold, same_conversation, conversation_id) ==
    IF ~same_conversation /\ conversation_id # None
    THEN Max2(similarity_threshold + CrossMargin, CrossFloor)
    ELSE similarity_threshold

\* a band test without the upper end
in_relation_band_open(similarity, threshold) ==
    threshold <= similarity

\* the test "actual_threshold <= memory.similarity <= 0.95"
in_relation_band(similarity, threshold) ==
    threshold <= similarity /\ similarity <= DedupCutoff

\* the test "memory.similarity > 0.95" of the duplicate check
is_duplicate(similarity) == similarity > DedupCutoff

\* the candidates the duplicate check looks at
dedup_considers(memory, conversation_id) ==
    ~(memory.conversation_id # conversation_id /\ conversation_id # None)

\* the MATCH ... WHERE m1 <> m2 AND NOT EXISTS(path) MERGE ... MERGE query
merge_relation(g, new_timestamp, old_timestamp, similarity, cross_conversation) ==
    IF /\ new_timestamp \in NodeTimestamps(g)
       /\ old_timestamp \in NodeTimestamps(g)
       /\ new_timestamp # old_timestamp
       /\ ~path_exists(g, new_timestamp, old_timestamp)
    THEN [g EXCEPT !.edges = @ \cup
            {[src |-> new_timestamp, dst |-> old_timestamp,
              similarity |-> similarity,
              cross_conversation |-> cross_conversation],
             [src |-> old_timestamp, dst |-> new_timestamp,
              similarity |-> similarity,
              cross_conversation |-> cross_conversation]}]
    ELSE g

RECURSIVE relate(_, _, _, _, _, _)
\* the loop over sorted_memories of create_memory_with_relations
relate(g, timestamp, sorted_memories, similarity_threshold, conversation_id, processed_timestamps) ==
    IF sorted_memories = <<>> THEN g
    ELSE
      LET memory == Head(sorted_memories)
          same_conversation == (memory.conversation_id = conversation_id)
          thr == actual_threshold(similarity_threshold, same_conversation,
                                  conversation_id)
      IN  IF /\ memory.timestamp \notin processed_timestamps
             /\ in_relation_band(memory.similarity, thr)
          THEN IF path_exists(g, timestamp, memory.timestamp)
               THEN relate(g, timestamp, Tail(sorted_memories),
                           similarity_threshold, conversation_id,
                           processed_timestamps)
               ELSE relate(merge_relation(g, timestamp, memory.timestamp,
                                          memory.similarity, ~same_conversation),
                           timestamp, Tail(sorted_memories),
                           similarity_threshold, conversation_id,
                           processed_timestamps \cup {memory.timestamp})
          ELSE relate(g, timestamp, Tail(sorted_memories),
                      similarity_threshold, conversation_id,
                      processed_timestamps)

\* the positions of the candidates the duplicate check stops at
DuplicateHits(similar_memories, conversation_id) ==
    {i \in 1..Len(similar_memories) :
        /\ dedup_considers(similar_memories[i], conversation_id)
        /\ is_duplicate(similar_memories[i].similarity)}

\* Neo4jDatabase.create_memory_with_relations; now is the reading of the
\* clock its own generate_timestamp() call gets.  The result is the returned
\* timestamp, the graph afterwards and whether a node was created.
create_memory_with_relations(g, user_message, ai_response, similar_memories, similarity_threshold, conversation_id, now) ==
    LET hits == DuplicateHits(similar_memories, conversation_id)
    IN  IF hits # {}
        THEN [ret |-> similar_memories[CHOOSE i \in hits :
                                         \A j \in hits : i <= j].timestamp,
              graph |-> g, created |-> FALSE]
        ELSE
          LET node == [timestamp |-> now,
                       user_message_preview |-> Preview(user_message),
                       ai_response_preview |-> Preview(ai_response),
                       topic |-> extract_topic(user_message),
                       conversation_id |-> conversation_id]
              g1 == [g EXCEPT !.nodes = @ \cup {node}]
          IN  [ret |-> now,
               graph |-> relate(g1, now, SortBySimDesc(similar_memories),
                                similarity_threshold, conversation_id, {}),
               created |-> TRUE]

\* Neo4jDatabase.clear_conversation_memories: DETACH DELETE of the nodes of
\* one conversation
\* a delete that takes every relationship with it
graph_clear_conversation_and_edges(g, conversation_id) ==
    [nodes |-> {n \in g.nodes : n.conversation_id # conversation_id},
     edges |-> {}]

\* Neo4jDatabase.clear_conversation_memories: MATCH (m:Memory) WHERE
\* m.conversation_id = $conversation_id DETACH DELETE m
graph_clear_conversation(g, conversation_id) ==
    LET gone == {n \in g.nodes : n.conversation_id = conversation_id}
        goneTs == {n.timestamp : n \in gone}
    IN  [nodes |-> g.nodes \ gone,
         edges |-> {e \in g.edges : e.src \notin goneTs /\ e.dst \notin goneTs}]

\* Neo4jDatabase.clear_all_memories
graph_clear_all(g) == [nodes |-> {}, edges |-> {}]

\* property =~ "(?i).*keyword.*": the whole property must match and "."
\* matches no line break, so a property holding the delimiter (which begins
\* with a line break) never matches
field_matches(field, keyword) ==
    keyword \in Range(field) /\ "D" \notin Range(field)

keyword_matches(n, keyword) ==
    \/ field_matches(n.user_message_preview, keyword)
    \/ field_matches(n.ai_response_preview, keyword)
    \/ field_matches(n.topic, keyword)

\* Neo4jDatabase.clear_memories_by_keyword (conversation_id = None): the
\* graph afterwards and the returned deleted_count
graph_clear_by_keyword(g, keyword) ==
    LET gone == {n \in g.nodes : keyword_matches(n, keyword)}
        goneTs == {n.timestamp : n \in gone}
    IN  [graph |-> [nodes |-> g.nodes \ gone,
                    edges |-> {e \in g.edges :
                                  e.src \notin goneTs /\ e.dst \notin goneTs}],
         deleted_count |-> Cardinality(gone),
         deleted_timestamps |-> goneTs]

RECURSIVE RelatedWithin(_, _, _, _)
\* the nodes a directed path of 1..depth relationships, each of similarity
\* at least min_similarity, leads to from a node of S
RelatedWithin(g, S, depth, min_similarity) ==
    IF depth = 0 THEN {}
    ELSE LET next == {e.dst : e \in {x \in g.edges :
                              x.src \in S /\ x.similarity >= min_similarity}}
         IN  next \cup RelatedWithin(g, next, depth - 1, min_similarity)

\* the query with max_depth formatted into the hop bound
hop_bound_formatted == TRUE

\* The query text of get_related_memories is a plain (not formatted) string,
\* so the hop bound reaches the server as the text "*1..{max_depth}", which
\* Cypher does not accept as a bound: session.run raises and nothing in
\* get_related_memories catches it.
hop_bound_is_literal == FALSE

\* Neo4jDatabase.get_related_memories: whether it raised, and the timestamps
\* of the memories it returned
get_related_memories(g, timestamp, max_depth, min_similarity, conversation_id, include_cross_conversation) ==
    IF ~hop_bound_is_literal
    THEN [raised |-> TRUE, memories |-> {}]
    ELSE
      LET rows == IF timestamp \in NodeTimestamps(g)
                  THEN {n \in g.nodes : n.timestamp \in
                          RelatedWithin(g, {timestamp}, max_depth,
                                        min_similarity)}
                  ELSE {}
          kept == IF conversation_id # None /\ ~include_cross_conversation
                  THEN {n \in rows : n.conversation_id = conversation_id}
                  ELSE rows
      IN  [raised |-> FALSE, memories |-> {n.timestamp : n \in kept}]

\* ------------------------------------------------------------ history store
\* MySQLStore.save_message for a conversation that exists: a row is inserted
\* unless one with this (conversation_id, timestamp) is already there
save_message(rows, conversation_id, timestamp, user_message, ai_response) ==
    IF \E i \in 1..Len(rows) : /\ rows[i].conversation_id = conversation_id
                               /\ rows[i].timestamp = timestamp
    THEN rows
    ELSE Append(rows, [conversation_id |-> conversation_id,
                       timestamp |-> timestamp,
                       user_message |-> user_message,
                       ai_response |-> ai_response])

\* save_message, "SELECT COUNT(*) ... WHERE conversation_id = %s AND
\* timestamp = %s"
count_messages(rows, conversation_id, timestamp) ==
    Cardinality({i \in 1..Len(rows) :
                   /\ rows[i].conversation_id = conversation_id
                   /\ rows[i].timestamp = timestamp})

\* save_message, "INSERT INTO conversation_messages ..."; the table has a
\* plain INDEX (conversation_id, timestamp), no unique key
insert_message(rows, conversation_id, timestamp, user_message, ai_response) ==
    Append(rows, [conversation_id |-> conversation_id,
                  timestamp |-> timestamp,
                  user_message |-> user_message,
                  ai_response |-> ai_response])

\* ------------------------------------------------------------- orchestrator
\* MemoryService._save_to_memory_stores: the stores afterwards and the calls
\* made, in order.  now is the reading of the clock that
\* create_memory_with_relations gets; order is the order in which the index
\* answers the search.
save_to_memory_stores(st, g, user_message, ai_response, timestamp, conversation_id, now, order) ==
    LET full_text == FullText(user_message, ai_response)
        embedding == Embed(full_text)
        st1 == add_text(st, full_text, embedding, timestamp, conversation_id)
        similar_memories == search(st1, embedding, SaveSearchK, None, order)
        r == create_memory_with_relations(g, user_message, ai_response,
                 similar_memories, RETRIEVAL_MIN_SIMILARITY, conversation_id,
                 now)
    IN  [store |-> st1, graph |-> r.graph,
         calls |-> <<"embed", "vector_write", "vector_search", "graph_write">>,
         cands |-> similar_memories, graph_ret |-> r.ret,
         created |-> r.created]

\* The orders the index may answer the search of the write path in
SaveOrders(st, user_message, ai_response, timestamp, conversation_id) ==
    LET full_text == FullText(user_message, ai_response)
    IN  FaissOrders(add_text(st, full_text, Embed(full_text), timestamp,
                             conversation_id).index,
                    Embed(full_text))

\* a save that does not look at its arguments first
save_conversation_unchecked(st, g, clk, user_message, ai_response, conversation_id, order) ==
    LET timestamp == clk + 1
        r == save_to_memory_stores(st, g, user_message, ai_response,
                                   timestamp, conversation_id, clk + 2, order)
    IN  [ret |-> timestamp, store |-> r.store, graph |-> r.graph,
         clock |-> clk + 2, calls |-> r.calls, cands |-> r.cands,
         graph_ret |-> r.graph_ret, created |-> r.created]

\* MemoryService.save_conversation.  clk is the last reading of the clock;
\* the two generate_timestamp() calls of one save are separated by the
\* embedding request and the index write, so each reads a later time.
save_conversation(st, g, clk, user_message, ai_response, conversation_id, order) ==
    IF user_message = <<>> \/ ai_response = <<>>
    THEN [ret |-> NoTimestamp, store |-> st, graph |-> g, clock |-> clk,
          calls |-> <<>>, cands |-> <<>>, graph_ret |-> NoTimestamp,
          created |-> FALSE]
    ELSE
      LET timestamp == clk + 1
          r == save_to_memory_stores(st, g, user_message, ai_response,
                                     timestamp, conversation_id, clk + 2, order)
      IN  [ret |-> timestamp, store |-> r.store, graph |-> r.graph,
           clock |-> clk + 2, calls |-> r.calls, cands |-> r.cands,
           graph_ret |-> r.graph_ret, created |-> r.created]

\* ------------------------------------------------ the write path with faults
\* what is down while one turn is saved: nothing, the embedding provider,
\* the vector store, the graph store or the history store
Faults == {"none", "embedding", "vector_write", "graph_write", "history_write"}

\* _save_to_memory_stores, "memory_store.add_text(...)": with the vector
\* store down the write of the index raises inside add_text, after the
\* record was appended, and add_text returns False
faiss_step(st, full_text, embedding, timestamp, conversation_id, fault) ==
    add_text_result(st, full_text,
                    IF fault = "vector_write" THEN Scalar ELSE embedding,
                    timestamp, conversation_id).store

\* the graph step that is given up once the vector store has failed
graph_step_unless_failed(g, user_message, ai_response, similar_memories, conversation_id, now, fault) ==
    IF fault \in {"graph_write", "vector_write"}
    THEN [ret |-> NoTimestamp, graph |-> g, created |-> FALSE]
    ELSE create_memory_with_relations(g, user_message, ai_response,
             similar_memories, RETRIEVAL_MIN_SIMILARITY, conversation_id, now)

\* _save_to_memory_stores, "neo4j_db.create_memory_with_relations(...)" in
\* its try: with the graph store down the call raises and the handler goes on
graph_step(g, user_message, ai_response, similar_memories, conversation_id, now, fault) ==
    IF fault = "graph_write"
    THEN [ret |-> NoTimestamp, graph |-> g, created |-> FALSE]
    ELSE create_memory_with_relations(g, user_message, ai_response,
             similar_memories, RETRIEVAL_MIN_SIMILARITY, conversation_id, now)

\* MemoryService._save_to_memory_stores with fault down: get_embedding
\* raising makes it return False at once
save_to_memory_stores_under(fault, st, g, user_message, ai_response, timestamp, conversation_id, now, order) ==
    IF fault = "embedding"
    THEN [store |-> st, graph |-> g, calls |-> <<"embed">>, cands |-> <<>>,
          graph_ret |-> NoTimestamp, created |-> FALSE, ok |-> FALSE]
    ELSE
      LET full_text == FullText(user_message, ai_response)
          embedding == Embed(full_text)
          st1 == faiss_step(st, full_text, embedding, timestamp,
                            conversation_id, fault)
          similar_memories == search(st1, embedding, SaveSearchK, None, order)
          r == graph_step(g, user_message, ai_response, similar_memories,
                          conversation_id, now, fault)
      IN  [store |-> st1, graph |-> r.graph,
           calls |-> <<"embed", "vector_write", "vector_search",
                       "graph_write">>,
           cands |-> similar_memories, graph_ret |-> r.ret,
           created |-> r.created, ok |-> TRUE]

\* MemoryService.save_conversation with fault down: the timestamp is
\* returned whatever _save_to_memory_stores returned
save_conversation_under(fault, st, g, clk, user_message, ai_response, conversation_id, order) ==
    IF user_message = <<>> \/ ai_response = <<>>
    THEN [ret |-> NoTimestamp, store |-> st, graph |-> g, clock |-> clk,
          calls |-> <<>>, cands |-> <<>>, graph_ret |-> NoTimestamp,
          created |-> FALSE, ok |-> FALSE]
    ELSE
      LET timestamp == clk + 1
          r == save_to_memory_stores_under(fault, st, g, user_message,
                   ai_response, timestamp, conversation_id, clk + 2, order)
      IN  [ret |-> timestamp, store |-> r.store, graph |-> r.graph,
           clock |-> clk + 2, calls |-> r.calls, cands |-> r.cands,
           graph_ret |-> r.graph_ret, created |-> r.created, ok |-> r.ok]

\* Neo4jDatabase.get_memory_by_timestamp, which
\* MemoryService.get_memory_by_timestamp hands on: the node, or None
get_memory_by_timestamp(g, timestamp) ==
    IF \E n \in g.nodes : n.timestamp = timestamp
    THEN CHOOSE n \in g.nodes : n.timestamp = timestamp
    ELSE None

\* MemoryService.clear_conversation_memories
clear_conversation_memories(st, g, conversation_id) ==
    [graph |-> graph_clear_conversation(g, conversation_id),
     store |-> clear_memory(st, conversation_id),
     ret |-> TRUE]

\* MemoryService.clear_all_memories
clear_all_memories(st, g) ==
    [graph |-> graph_clear_all(g), store |-> clear_memory(st, None),
     ret |-> TRUE]

\* MemoryService.clear_memories_by_keyword: the graph store hands back an
\* int, unpacking it into (deleted_count, timestamps) raises, and the
\* handler of the exception returns (0, []) with the vector store untouched
clear_memories_by_keyword(st, g, keyword) ==
    LET r == graph_clear_by_keyword(g, keyword)
    IN  [graph |-> r.graph, store |-> st,
         deleted_count |-> 0, timestamps |-> {},
         deleted |-> r.deleted_timestamps]

\* MemoryService.get_memory_statistics().is_consistent
is_consistent(st, g) == faiss_count(st) = Cardinality(g.nodes)

\* ----------------------------------------------------------------- read path
RECURSIVE OfConversation(_, _)
\* the rows of a conversation, oldest first (created_at ascending)
OfConversation(rows, conversation_id) ==
    IF rows = <<>> THEN <<>>
    ELSE IF Head(rows).conversation_id = conversation_id
         THEN <<Head(rows)>> \o OfConversation(Tail(rows), conversation_id)
         ELSE OfConversation(Tail(rows), conversation_id)

Reverse(s) == [i \in 1..Len(s) |-> s[Len(s) + 1 - i]]

\* LIMIT limit OFFSET offset
Slice(s, limit, offset) ==
    SubSeq(s, offset + 1, Min2(Len(s), offset + limit))

\* MySQLStore.get_conversation_messages: ORDER BY created_at ASC or DESC,
\* then LIMIT and OFFSET
get_conversation_messages(rows, conversation_id, limit, offset, sort_asc) ==
    LET mine == OfConversation(rows, conversation_id)
    IN  Slice(IF sort_asc THEN mine ELSE Reverse(mine), limit, offset)

\* Neo4jDatabase.get_recent_memories: the nodes (of the conversation, when
\* one is given) newest first, at most limit of them
RECURSIVE NewestFirst(_)
NewestFirst(ns) ==
    IF ns = {} THEN <<>>
    ELSE LET n == CHOOSE x \in ns : \A y \in ns : y.timestamp <= x.timestamp
         IN  <<n>> \o NewestFirst(ns \ {n})

get_recent_memories(g, limit, conversation_id) ==
    LET ns == {n \in g.nodes : conversation_id # None =>
                                   n.conversation_id = conversation_id}
    IN  Slice(NewestFirst(ns), limit, 0)

\* one entry of the list of memories the read path hands back
MemoryInfo(timestamp, user_message, ai_response, source, conversation_id) ==
    [timestamp |-> timestamp, user_message |-> user_message,
     ai_response |-> ai_response, source |-> source,
     conversation_id |-> conversation_id]

RECURSIVE AddUnseen(_, _)
\* the merge without the look at the timestamps already there
AddAll(memories, more) == memories \o more

\* "if memory_info["timestamp"] not in [m["timestamp"] for m in memories]"
AddUnseen(memories, more) ==
    IF more = <<>> THEN memories
    ELSE IF \E i \in 1..Len(memories) :
                memories[i].timestamp = Head(more).timestamp
         THEN AddUnseen(memories, Tail(more))
         ELSE AddUnseen(Append(memories, Head(more)), Tail(more))

\* the short circuit with a whole window asked for
enough_history_full(messages, window_size) ==
    messages # <<>> /\ Len(messages) >= window_size

\* "if messages and len(messages) > 0: ... if len(messages) >= window_size / 2"
enough_history(messages, window_size) ==
    messages # <<>> /\ 2 * Len(messages) >= window_size

\* MemoryService._retrieve_memories: the memories and the stores and
\* providers called, in order
retrieve_memories(rows, st, g, query, max_memories, conversation_id, use_mysql_context, order) ==
    LET window_size == CONVERSATION_CONTEXT_WINDOW_SIZE
        read     == use_mysql_context /\ conversation_id # None
        messages == IF read
                    THEN get_conversation_messages(rows, conversation_id,
                                                   window_size, 0, TRUE)
                    ELSE <<>>
        history  == [i \in 1..Len(messages) |->
                        MemoryInfo(messages[i].timestamp,
                                   messages[i].user_message,
                                   messages[i].ai_response, "mysql_history",
                                   conversation_id)]
        calls1   == IF read THEN <<"history_read">> ELSE <<>>
    IN  IF enough_history(messages, window_size)
        THEN [memories |-> history, calls |-> calls1]
        ELSE
          LET embedding == Embed(query)
              similar   == SortBySimDesc(search(st, embedding, max_memories,
                                                conversation_id, order))
              hits      == [i \in 1..Len(similar) |->
                               MemoryInfo(similar[i].timestamp,
                                          similar[i].user_message,
                                          similar[i].ai_response,
                                          "vector_search",
                                          similar[i].conversation_id)]
              merged    == AddUnseen(history, hits)
              calls2    == calls1 \o <<"embed", "vector_search">>
          IN  IF Len(merged) < max_memories /\ ~use_mysql_context
              THEN
                LET related == get_recent_memories(
                                   g, max_memories - Len(merged),
                                   conversation_id)
                    recent  == [i \in 1..Len(related) |->
                                  MemoryInfo(related[i].timestamp,
                                             related[i].user_message_preview,
                                             related[i].ai_response_preview,
                                             "recent_neo4j",
                                             related[i].conversation_id)]
                IN  [memories |-> AddUnseen(merged, recent),
                     calls |-> Append(calls2, "graph_recent")]
              ELSE [memories |-> merged, calls |-> calls2]

\* memories[:top_n]
FirstN(memories, top_n) == SubSeq(memories, 1, Min2(top_n, Len(memories)))

RECURSIVE PickReranked(_, _)
\* the loop over rerank_results: the memory at every index within range,
\* in the order of the answer
PickReranked(memories, rerank_results) ==
    IF rerank_results = <<>> THEN <<>>
    ELSE IF Head(rerank_results) < Len(memories)
         THEN <<memories[Head(rerank_results) + 1]>>
              \o PickReranked(memories, Tail(rerank_results))
         ELSE PickReranked(memories, Tail(rerank_results))

\* MemoryService._rerank_memories; rerank_results are the indices (from 0)
\* that rerank_documents hands back, <<>> when the request fails
rerank_memories(memories, top_n, rerank_enabled, rerank_results) ==
    IF memories = <<>> THEN <<>>
    ELSE IF ~rerank_enabled THEN FirstN(memories, top_n)
    ELSE IF rerank_results = <<>> THEN FirstN(memories, top_n)
    ELSE PickReranked(memories, rerank_results)

\* MemoryService.get_enhanced_context, step 1: the retrieval, for twice
\* max_memories and no fewer than ten
enhanced_retrieve(rows, st, g, query, max_memories, conversation_id, use_mysql_context, order) ==
    retrieve_memories(rows, st, g, query,
                      Max2(max_memories * RetrieveFactor, RetrieveFloor),
                      conversation_id, use_mysql_context, order)

\* MemoryService.get_enhanced_context, step 2: r is what step 1 retrieved
enhanced_rerank(r, max_memories, rerank_enabled, rerank_results) ==
    IF Len(r.memories) > max_memories
    THEN [memories |-> rerank_memories(r.memories, max_memories,
                                       rerank_enabled, rerank_results),
          calls |-> IF rerank_enabled THEN Append(r.calls, "rerank")
                    ELSE r.calls]
    ELSE r

\* MemoryService.get_enhanced_context
get_enhanced_context(rows, st, g, query, max_memories, conversation_id, use_mysql_context, order, rerank_enabled, rerank_results) ==
    enhanced_rerank(enhanced_retrieve(rows, st, g, query, max_memories,
                                      conversation_id, use_mysql_context,
                                      order),
                    max_memories, rerank_enabled, rerank_results)

\* MemoryService.get_context
get_context(rows, st, g, query, max_memories, conversation_id, use_mysql_context, order) ==
    LET read == use_mysql_context /\ conversation_id # None
        recent_messages ==
            IF read
            THEN get_conversation_messages(rows, conversation_id,
                     CONVERSATION_CONTEXT_WINDOW_SIZE, 0, FALSE)
            ELSE <<>>
    IN  IF recent_messages # <<>>
        THEN [memories |-> [i \in 1..Len(recent_messages) |->
                               MemoryInfo(recent_messages[i].timestamp,
                                          recent_messages[i].user_message,
                                          recent_messages[i].ai_response,
                                          "mysql", conversation_id)],
              calls |-> <<"history_read">>]
        ELSE
          LET r == retrieve_memories(rows, st, g, query, max_memories,
                                     conversation_id, use_mysql_context, order)
          IN  [memories |-> r.memories,
               calls |-> (IF read THEN <<"history_read">> ELSE <<>>)
                         \o r.calls]

\* ------------------------------------------------- the file at index_path
\* no file at index_path, and a file that pickle.load cannot read
NoFile == [exists |-> FALSE]
Unreadable == [readable |-> FALSE]

\* FAISSMemoryStore._create_new_index: a new index and self.texts = []
create_new_index == [texts |-> <<>>, index |-> <<>>]

\* FAISSMemoryStore.save_index: pickle.dump({'index': ..., 'texts': ...})
save_index(st) == [index |-> st.index, texts |-> st.texts]

\* the load with its error let through
construct_or_raise(file) ==
    IF file = NoFile
    THEN [store |-> create_new_index, file |-> save_index(create_new_index),
          raised |-> FALSE]
    ELSE IF file = Unreadable
    THEN [store |-> create_new_index, file |-> file, raised |-> TRUE]
    ELSE [store |-> [texts |-> file.texts, index |-> file.index],
          file |-> file, raised |-> FALSE]

\* FAISSMemoryStore.__init__: the store and the file after construction
construct(file) ==
    IF file = NoFile
    THEN [store |-> create_new_index, file |-> save_index(create_new_index),
          raised |-> FALSE]
    ELSE IF file = Unreadable
    THEN [store |-> create_new_index, file |-> file, raised |-> FALSE]
    ELSE [store |-> [texts |-> file.texts, index |-> file.index],
          file |-> file, raised |-> FALSE]

\* the records added between two saves of add_text once the store is past
\* its first batch (100 in the source)
SaveBatch == 2

\* a save only while the store is in its first batch
should_save_first_batch(total_memories) ==
    total_memories < SaveBatch

\* add_text: "if total_memories % 100 == 0 or total_memories < 100"
should_save(total_memories) ==
    total_memories % SaveBatch = 0 \/ total_memories < SaveBatch

\* ------------------------------------------------ the dimension of a vector
\* settings.FAISS_DIMENSION, scaled
Dimension == 2

\* the vector cut to Dimension but never padded
fit_dimension_cut_only(embedding) ==
    IF Len(embedding) > Dimension
    THEN SubSeq(embedding, 1, Dimension)
    ELSE embedding

\* add_text, "if embedding.shape[1] != self.dimension": embedding[:, :D]
\* for a longer vector, np.hstack((embedding, zeros)) for a shorter one
fit_dimension(embedding) ==
    IF Len(embedding) > Dimension
    THEN SubSeq(embedding, 1, Dimension)
    ELSE embedding \o [i \in 1..(Dimension - Len(embedding)) |-> 0]

\* FAISSMemoryStore.add_text with the embedding as a vector of components:
\* the record is appended, the vector fitted to Dimension and added to the
\* index, and True returned
add_text_fitted(st, text, embedding, timestamp, conversation_id) ==
    [store |-> [texts |-> Append(st.texts,
                             [text |-> text, timestamp |-> timestamp,
                              conversation_id |-> conversation_id]),
                index |-> Append(st.index, fit_dimension(embedding))],
     ok |-> TRUE]

\* ------------------------------------------------- deleting a conversation
\* MySQLStore.delete_conversation: the conversation row goes, and its
\* messages with it (fk_conversation_id ... ON DELETE CASCADE)
mysql_delete_conversation(convs, rows, conversation_id) ==
    [conversations |-> convs \ {conversation_id},
     messages |-> SeqFilter(rows, {row \in Range(rows) :
                                     row.conversation_id # conversation_id})]

\* ConversationService.delete_conversation: the memories first, then the row
delete_conversation(st, g, convs, rows, conversation_id) ==
    [memory |-> clear_conversation_memories(st, g, conversation_id),
     history |-> mysql_delete_conversation(convs, rows, conversation_id)]

\* --------------------------------------------------- the embedding provider
\* get_embedding: max_chars = 340; get_embedding_from_api: "if half_length < 10"
max_chars == 340
MinHalfLength == 10
HTTP_200 == 200
HTTP_413 == 413

\* a text is a sequence of characters, " " the whitespace
RECURSIVE lstrip(_)
lstrip(text) ==
    IF text # <<>> /\ Head(text) = " " THEN lstrip(Tail(text)) ELSE text

RECURSIVE rstrip(_)
rstrip(text) ==
    IF text # <<>> /\ text[Len(text)] = " "
    THEN rstrip(SubSeq(text, 1, Len(text) - 1))
    ELSE text

\* str.strip
strip(text) == rstrip(lstrip(text))

\* get_embedding up to the request: "if not text", text.strip(),
\* "if not text" again, text[:max_chars]
get_embedding_prepare(text) ==
    IF text = <<>> THEN [raised |-> TRUE, text |-> <<>>]
    ELSE IF strip(text) = <<>> THEN [raised |-> TRUE, text |-> <<>>]
    ELSE [raised |-> FALSE,
          text |-> SubSeq(strip(text), 1, Min2(Len(strip(text)), max_chars))]

\* the text sent again as it was
same_length(text) == Len(text)

\* half_length = len(text) // 2
half_length(text) == Len(text) \div 2

\* get_embedding_from_api on the provider's answer to the request for text:
\* the vector on 200, the request again for text[:half_length] on 413 "must
\* have less than max tokens" unless half_length < 10, an Exception otherwise
on_provider_answer(text, status, too_long) ==
    IF status = HTTP_200 THEN [next |-> "returned", text |-> text]
    ELSE IF status = HTTP_413 /\ too_long
    THEN IF half_length(text) < MinHalfLength
         THEN [next |-> "raised", text |-> text]
         ELSE [next |-> "request", text |-> SubSeq(text, 1, half_length(text))]
    ELSE [next |-> "raised", text |-> text]

\* ------------------------------------------------------- backup and restore
\* backup_memories: the MATCH (m:Memory) OPTIONAL MATCH ... RETURN m,
\* collect({target, similarity}) export, one entry per node with the four
\* properties the loop copies
neo4j_export(g) ==
    {[timestamp |-> n.timestamp,
      user_message_preview |-> n.user_message_preview,
      ai_response_preview |-> n.ai_response_preview,
      topic |-> n.topic,
      relations |-> {[target |-> e.dst, similarity |-> e.similarity] :
                       e \in {x \in g.edges : x.src = n.timestamp}}] :
       n \in g.nodes}

\* MemoryService.backup_memories: shutil.copy2 of the file at index_path
\* (raising when there is none), then the export of the graph
backup_memories(file, g) ==
    IF file = NoFile
    THEN [raised |-> TRUE, backup |-> [exists |-> TRUE, complete |-> FALSE]]
    ELSE [raised |-> FALSE,
          backup |-> [exists |-> TRUE, complete |-> TRUE,
                      faiss_index |-> file, neo4j_data |-> neo4j_export(g)]]

\* restore_memories, "CREATE (m:Memory {...})" per entry: the node has the
\* properties of the entry and no conversation_id
neo4j_import_nodes(data) ==
    {[timestamp |-> m.timestamp,
      user_message_preview |-> m.user_message_preview,
      ai_response_preview |-> m.ai_response_preview,
      topic |-> m.topic,
      conversation_id |-> None] : m \in data}

\* restore_memories, "MERGE (m1)-[r:SIMILAR_TO {similarity: ...}]->(m2)"
neo4j_import_edges(data) ==
    UNION {{[src |-> m.timestamp, dst |-> rel.target,
             similarity |-> rel.similarity] : rel \in m.relations} :
           m \in data}

\* FAISSMemoryStore defines no reload_index
has_reload_index == FALSE

\* MemoryService.restore_memories: False for a path that is missing or
\* incomplete; otherwise clear_all_memories, the copy of the backup onto
\* index_path, memory_store.reload_index(), and the import of the graph.
\* An exception on the way is caught and makes the call return False.
restore_memories(bk, st, g, file) ==
    IF ~bk.exists THEN [ret |-> FALSE, store |-> st, graph |-> g, file |-> file]
    ELSE IF ~bk.complete
    THEN [ret |-> FALSE, store |-> st, graph |-> g, file |-> file]
    ELSE IF ~has_reload_index
    THEN [ret |-> FALSE, store |-> clear_all_memories(st, g).store,
          graph |-> clear_all_memories(st, g).graph,
          file |-> bk.faiss_index]
    ELSE [ret |-> TRUE,
          store |-> construct(bk.faiss_index).store,
          graph |-> [nodes |-> neo4j_import_nodes(bk.neo4j_data),
                     edges |-> neo4j_import_edges(bk.neo4j_data)],
          file |-> bk.faiss_index]

\* ---------------------------------------------------------- the statistics
\* FAISSMemoryStore.get_statistics: "count": len(self.texts)
get_statistics(st) == [count |-> Len(st.texts)]

\* Neo4jDatabase.get_memory_statistics: count(m) over the Memory nodes and
\* count(r) over the SIMILAR_TO relations
neo4j_get_memory_statistics(g) ==
    [node_count |-> Cardinality(g.nodes), rel_count |-> Cardinality(g.edges)]

\* the count taken from the vectors of the index
get_memory_statistics_by_index(st, g) ==
    LET neo4j_stats == neo4j_get_memory_statistics(g)
    IN  [faiss_count |-> Len(st.index),
         neo4j_node_count |-> neo4j_stats.node_count,
         neo4j_rel_count |-> neo4j_stats.rel_count,
         is_consistent |-> Len(st.index) = neo4j_stats.node_count]

\* MemoryService.get_memory_statistics
get_memory_statistics(st, g) ==
    LET faiss_stats == get_statistics(st)
        neo4j_stats == neo4j_get_memory_statistics(g)
    IN  [faiss_count |-> faiss_stats.count,
         neo4j_node_count |-> neo4j_stats.node_count,
         neo4j_rel_count |-> neo4j_stats.rel_count,
         is_consistent |-> faiss_stats.count = neo4j_stats.node_count]

\* ------------------------------------------------------------ the reranker
\* relevance 1.0, and the mark of a memory that carries no relevance_score
NeutralScore == SimOne
NoScore == 0 - 1

\* [{"index": i, "relevance_score": 1.0} for i in range(min(top_n, len))]
DefaultRanking(n, top_n) ==
    [i \in 1..Min2(top_n, n) |->
        [index |-> i - 1, relevance_score |-> NeutralScore]]

RECURSIVE RankFrom(_, _)
\* scored_docs.sort(key=relevance_score, reverse=True): the highest score
\* first, equal scores in the order of the documents
RankFrom(scores, left) ==
    IF left = {} THEN <<>>
    ELSE LET best == CHOOSE i \in left :
                         \A j \in left :
                             \/ scores[i] > scores[j]
                             \/ scores[i] = scores[j] /\ i <= j
         IN  <<[index |-> best - 1, relevance_score |-> scores[best]]>>
             \o RankFrom(scores, left \ {best})

RankByScore(scores, top_n) ==
    FirstN(RankFrom(scores, 1..Len(scores)), top_n)

\* utils.rerank.rerank_documents: the local cross-encoder; failed is a
\* model that cannot be loaded or a prediction that raises
utils_rerank_documents(documents, top_n, enabled, failed, scores) ==
    IF documents = <<>> THEN <<>>
    ELSE IF ~enabled THEN DefaultRanking(Len(documents), top_n)
    ELSE IF failed THEN DefaultRanking(Len(documents), top_n)
    ELSE RankByScore(scores, top_n)

\* core.embedding.rerank_documents: the rerank request to the provider;
\* failed is a status other than 200 or a request that raises
rerank_documents(documents, top_n, enabled, failed, scores) ==
    IF documents = <<>> THEN <<>>
    ELSE IF ~enabled THEN <<>>
    ELSE IF failed THEN <<>>
    ELSE RankByScore(scores, top_n)

\* memories[:top_n]: the memories as they came, none given a score
Unscored(n, top_n) ==
    [i \in 1..Min2(top_n, n) |->
        [index |-> i - 1, relevance_score |-> NoScore]]

\* MemoryService._rerank_memories over core.embedding.rerank_documents;
\* a memory of the result is named by its place (from 0) in the input
rerank_memories_scored(memories, top_n, enabled, failed, scores) ==
    IF memories = <<>> THEN <<>>
    ELSE IF ~enabled THEN Unscored(Len(memories), top_n)
    ELSE LET rerank_results ==
                 rerank_documents(memories, top_n, TRUE, failed, scores)
         IN  IF rerank_results = <<>>
             THEN Unscored(Len(memories), top_n)
             ELSE rerank_results

\* ------------------------------------------------- the read path with faults
\* what is down while a context is read: nothing, the history store, the
\* embedding provider, the vector store, the graph store or the reranker
ReadFaults == {"none", "history_read", "embedding", "vector_search", "graph_read", "rerank"}

NoStore == [texts |-> <<>>, index |-> <<>>]

\* What a failing history store and a failing vector store hand to
\* MemoryService._retrieve_memories: both catch their own errors and return
\* an empty list (get_conversation_messages, search).
rows_under(fault, rows) == IF fault = "history_read" THEN <<>> ELSE rows
store_under(fault, st) == IF fault = "vector_search" THEN NoStore ELSE st

\* get_embedding and get_recent_memories raise, and nothing in
\* _retrieve_memories catches it: r is the retrieval as it would have run
raises_under(fault, r) ==
    \/ fault = "embedding" /\ "embed" \in Range(r.calls)
    \/ fault = "graph_read" /\ "graph_recent" \in Range(r.calls)

\* MemoryService._retrieve_memories with fault down
retrieve_memories_under(fault, r) ==
    [memories |-> IF raises_under(fault, r) THEN <<>> ELSE r.memories,
     calls |-> r.calls,
     raised |-> raises_under(fault, r)]

\* an exception that is let through to the caller
except_reraises(r) == r

\* "except Exception as e: ... return "", []" of get_enhanced_context and of
\* get_context
except_returns_empty(r) ==
    IF r.raised
    THEN [memories |-> <<>>, calls |-> r.calls, raised |-> FALSE]
    ELSE r

\* the rerank step of get_enhanced_context with fault down: with the
\* reranker down rerank_documents hands back []
enhanced_rerank_under(fault, r, max_memories, rerank_enabled, rerank_results) ==
    IF r.raised THEN r
    ELSE LET e == enhanced_rerank(
                      [memories |-> r.memories, calls |-> r.calls],
                      max_memories, rerank_enabled,
                      IF fault = "rerank" THEN <<>> ELSE rerank_results)
         IN  [memories |-> e.memories, calls |-> e.calls, raised |-> FALSE]

\* --------------------------------------------------------------------- state
VARIABLES
    texts,          \* memory_store.texts: the record list
    index,          \* memory_store.index: the vectors, in insertion order
    nodes,          \* the Memory nodes of the graph store
    edges,          \* the SIMILAR_TO relationships of the graph store
    conversations,  \* ids of the rows of table conversations
    nextConvId,     \* AUTO_INCREMENT counter of table conversations
    messages,       \* rows of table conversation_messages, in insertion order
    clock,          \* the last reading of datetime.now()
    saves,          \* turns saved so far
    graphCalls,     \* direct calls of the graph store so far
    last,           \* what the last operation was given, did and returned
    pc,             \* where each thread calling the vector store stands
    adding,         \* add_text of the adding thread: the record and its vector
    retained,       \* clear_memory of the clearing thread: retained_texts
                    \* and retained_embeddings
    blob,           \* the file at index_path, as save_index last wrote it
    issued,         \* the records add_text was called with, in order
    stamps,         \* the timestamps generate_timestamp returned, in order
    backup          \* the directory backup_memories last wrote

\* the state of the threads on the vector store and of the wall clock
aux == <<pc, adding, retained, blob, issued, stamps, backup>>

vars == <<texts, index, nodes, edges, conversations, nextConvId, messages,
          clock, saves, graphCalls, last, pc, adding, retained, blob, issued,
          stamps, backup>>

Store == [texts |-> texts, index |-> index]
Graph == [nodes |-> nodes, edges |-> edges]

NoAdding == [record |-> <<>>, embedding |-> 0]
NoRetained == [texts |-> <<>>, embeddings |-> <<>>, conversation_id |-> None]

\* the callers of MySQLStore.save_message, and a caller not in a call; in a
\* call pc.save[caller] holds the arguments, the statement the call is at,
\* and at the end what it returned and whether it inserted a row
MaxCallers == 2
Callers == 1..MaxCallers
NoCall == [at |-> "idle", conversation_id |-> None, timestamp |-> NoTimestamp,
           ret |-> FALSE, inserted |-> FALSE]

\* no backup directory yet
NoBackup == [exists |-> FALSE]

\* a chat turn that is not under way; while one waits for the language model
\* pc.turn holds its message and conversation_id
NoTurn == [at |-> "idle", message |-> <<>>, conversation_id |-> None,
           deleted_meanwhile |-> FALSE]

NoLast ==
    [op |-> "init", um |-> <<>>, ar |-> <<>>, conv |-> None,
     ret |-> NoTimestamp, calls |-> <<>>, cands |-> <<>>,
     graph_ret |-> NoTimestamp, created |-> FALSE,
     twins |-> {}, had_duplicate |-> FALSE,
     deleted |-> {}, count |-> 0, timestamps |-> {}, former |-> {},
     hist_conv |-> None, skipped |-> {}, outside |-> {},
     k |-> 0, found |-> <<>>, ok |-> TRUE, matching |-> 0,
     use_mysql_context |-> FALSE,
     fault |-> "none", raised |-> FALSE, answered |-> FALSE, status |-> 0,
     documents |-> <<>>, top_n |-> 0, enabled |-> TRUE, failed |-> FALSE,
     result |-> <<>>, entry |-> "none", requested |-> None,
     is_consistent |-> TRUE, embedding |-> <<>>,
     max_depth |-> 0, min_similarity |-> 0, include_cross |-> FALSE,
     file |-> "none", before |-> <<>>, deleted_meanwhile |-> FALSE,
     rows_before |-> 0, query |-> 0]

Init ==
    /\ texts = <<>>
    /\ index = <<>>
    /\ nodes = {}
    /\ edges = {}
    /\ conversations = {}
    /\ nextConvId = 1
    /\ messages = <<>>
    /\ clock = 0
    /\ saves = 0
    /\ graphCalls = 0
    /\ last = NoLast
    /\ pc = [add |-> "idle", clear |-> "idle", turn |-> NoTurn,
             save |-> [caller \in Callers |-> NoCall]]
    /\ adding = NoAdding
    /\ retained = NoRetained
    /\ blob = [index |-> <<>>, texts |-> <<>>]
    /\ issued = <<>>
    /\ stamps = <<>>
    /\ backup = NoBackup

\* the timestamps earlier saves of this very turn returned, as far as their
\* records are still in the vector store
Twins(st, user_message, ai_response, conversation_id) ==
    {st.texts[i].timestamp : i \in {j \in 1..Len(st.texts) :
        /\ st.texts[j].text = FullText(user_message, ai_response)
        /\ st.texts[j].conversation_id = conversation_id}}

\* some record already in the vector store is as similar to the turn as the
\* dedup cutoff
HadDuplicate(st, user_message, ai_response) ==
    \E i \in 1..Len(st.index) :
        Similarity(Distance(st.index[i],
                            Embed(FullText(user_message, ai_response))))
            >= DedupCutoff

SaveLast(op, r, um, ar, conv) ==
    [NoLast EXCEPT !.op = op, !.um = um, !.ar = ar, !.conv = conv,
                   !.ret = r.ret, !.calls = r.calls, !.cands = r.cands,
                   !.graph_ret = r.graph_ret, !.created = r.created,
                   !.twins = Twins(Store, um, ar, conv),
                   !.had_duplicate = HadDuplicate(Store, um, ar)]

\* ------------------------------------------------------------------ actions
\* ChatService.get_chat_response from the answer of the language model on:
\* the turn is saved to memory and, when it belongs to a conversation, to the
\* history store; a conversation that is missing by then is created anew
ChatTurnSteps(entry, requested, message, full_response, conversation_id) ==
    /\ conversation_id # None =>
          (conversation_id \in conversations \/ nextConvId <= MaxConversations)
    /\ \E order \in SaveOrders(Store, message, full_response, clock + 1,
                               conversation_id) :
       \E r \in {save_conversation(Store, Graph, clock, message,
                                   full_response, conversation_id, order)} :
         LET missing == conversation_id # None
                        /\ conversation_id \notin conversations
             hist == IF missing THEN nextConvId ELSE conversation_id
         IN  /\ texts' = r.store.texts
             /\ index' = r.store.index
             /\ nodes' = r.graph.nodes
             /\ edges' = r.graph.edges
             /\ clock' = r.clock
             /\ conversations' = IF missing
                                 THEN conversations \cup {nextConvId}
                                 ELSE conversations
             /\ nextConvId' = IF missing THEN nextConvId + 1 ELSE nextConvId
             /\ messages' = IF conversation_id # None
                            THEN save_message(messages, hist, r.ret, message,
                                              full_response)
                            ELSE messages
             /\ last' = [SaveLast("chat", r, message, full_response,
                                  conversation_id)
                           EXCEPT !.hist_conv = hist,
                                  !.entry = entry,
                                  !.requested = requested,
                                  !.answered = TRUE,
                                  !.deleted_meanwhile =
                                      pc.turn.deleted_meanwhile,
                                  !.rows_before = Len(messages),
                                  !.calls = IF conversation_id # None
                                            THEN Append(r.calls, "history_write")
                                            ELSE r.calls]
    /\ saves' = saves + 1
    /\ UNCHANGED graphCalls

ChatTurnFrom(entry, requested, message, full_response, conversation_id) ==
    /\ ChatTurnSteps(entry, requested, message, full_response,
                     conversation_id)
    /\ UNCHANGED aux

\* ChatService.get_chat_response called with conversation_id
ChatTurn(message, full_response, conversation_id) ==
    ChatTurnFrom("get_chat_response", conversation_id, message,
                 full_response, conversation_id)

GetChatResponse(message, full_response, conversation_id) ==
    /\ saves < MaxSaves
    /\ ChatTurn(message, full_response, conversation_id)

\* MySQLStore.create_conversation
CreateConversation ==
    /\ nextConvId <= MaxConversations
    /\ conversations' = conversations \cup {nextConvId}
    /\ nextConvId' = nextConvId + 1
    /\ last' = [NoLast EXCEPT !.op = "create_conversation", !.conv = nextConvId]
    /\ UNCHANGED <<texts, index, nodes, edges, messages, clock, saves,
                   graphCalls>>
    /\ UNCHANGED aux

\* MemoryService.clear_conversation_memories
ClearConversationMemories(conversation_id) ==
    /\ last.op # "clear_conversation"
    /\ \E r \in {clear_conversation_memories(Store, Graph, conversation_id)} :
           /\ texts' = r.store.texts
           /\ index' = r.store.index
           /\ nodes' = r.graph.nodes
           /\ edges' = r.graph.edges
           /\ last' = [NoLast EXCEPT
                 !.op = "clear_conversation", !.conv = conversation_id,
                 !.former =
                    {texts[i].timestamp : i \in {j \in 1..Len(texts) :
                        texts[j].conversation_id = conversation_id}}
                    \cup {n.timestamp : n \in {m \in nodes :
                        m.conversation_id = conversation_id}}]
    /\ UNCHANGED <<conversations, nextConvId, messages, clock, saves,
                   graphCalls>>
    /\ UNCHANGED aux

\* MemoryService.clear_all_memories
ClearAllMemories ==
    /\ last.op # "clear_all"
    /\ \E r \in {clear_all_memories(Store, Graph)} :
           /\ texts' = r.store.texts
           /\ index' = r.store.index
           /\ nodes' = r.graph.nodes
           /\ edges' = r.graph.edges
           /\ last' = [NoLast EXCEPT !.op = "clear_all"]
    /\ UNCHANGED <<conversations, nextConvId, messages, clock, saves,
                   graphCalls>>
    /\ UNCHANGED aux

\* MemoryService.clear_memories_by_keyword
ClearMemoriesByKeyword(keyword) ==
    /\ last.op # "clear_keyword"
    /\ \E r \in {clear_memories_by_keyword(Store, Graph, keyword)} :
           /\ texts' = r.store.texts
           /\ index' = r.store.index
           /\ nodes' = r.graph.nodes
           /\ edges' = r.graph.edges
           /\ last' = [NoLast EXCEPT
                 !.op = "clear_keyword", !.count = r.deleted_count,
                 !.timestamps = r.timestamps, !.deleted = r.deleted]
    /\ UNCHANGED <<conversations, nextConvId, messages, clock, saves,
                   graphCalls>>
    /\ UNCHANGED aux

Next ==
    \/ \E um \in UserMessages, ar \in AiResponses, conv \in ConvArgs :
          GetChatResponse(um, ar, conv)
    \/ CreateConversation
    \/ \E conv \in ConvIds : ClearConversationMemories(conv)
    \/ ClearAllMemories
    \/ \E keyword \in Keywords : ClearMemoriesByKeyword(keyword)

Spec == Init /\ [][Next]_vars

\* ------------------------------------------------ the graph store on its own
\* The graph store driven through its own interface: the caller hands
\* create_memory_with_relations memories of the graph together with the
\* similarities a vector search can report for them.
GraphConvArgs == {None, 1}
CandidateGaps == {1, 2, 4, 5, 6}
CandidateSims == {Similarity(Distance(k, 0)) : k \in CandidateGaps}

Candidates(g) ==
    {Memory(n.user_message_preview, n.ai_response_preview, n.timestamp, sim,
            n.conversation_id) : n \in g.nodes, sim \in CandidateSims}

CandidateLists(g) ==
    UNION {{c \in [1..len -> Candidates(g)] :
              \A i, j \in 1..len : i # j => c[i].timestamp # c[j].timestamp} :
           len \in 0..MaxCandidates}

\* the candidates of a call that were within the band of their effective
\* threshold, are nodes of the graph, and were left without a relationship to
\* the new node
Skipped(after, timestamp, cands, conv) ==
    {c.timestamp : c \in {m \in Range(cands) :
        /\ m.timestamp \in NodeTimestamps(after) \ {timestamp}
        /\ actual_threshold(RETRIEVAL_MIN_SIMILARITY,
                            m.conversation_id = conv, conv) <= m.similarity
        /\ m.similarity <= DedupCutoff
        /\ ~\E e \in after.edges : e.src = timestamp /\ e.dst = m.timestamp}}

\* the candidates of a call whose similarity is below the threshold or above
\* the dedup cutoff
Outside(cands) ==
    {c.timestamp : c \in {m \in Range(cands) :
        \/ m.similarity < RETRIEVAL_MIN_SIMILARITY
        \/ m.similarity > DedupCutoff}}

\* Neo4jDatabase.create_memory_with_relations called with a list of candidates
GraphCreate(um, ar, conv, cands) ==
    /\ graphCalls < MaxGraphCalls
    /\ \E r \in {create_memory_with_relations(Graph, um, ar, cands,
                     RETRIEVAL_MIN_SIMILARITY, conv, clock + 1)} :
         /\ nodes' = r.graph.nodes
         /\ edges' = r.graph.edges
         /\ last' = [NoLast EXCEPT !.op = "create_memory_with_relations",
                                   !.um = um, !.ar = ar, !.conv = conv,
                                   !.ret = r.ret, !.graph_ret = clock + 1,
                                   !.created = r.created,
                                   !.skipped = IF r.created
                                               THEN Skipped(r.graph, clock + 1,
                                                            cands, conv)
                                               ELSE {},
                                   !.outside = Outside(cands)]
    /\ clock' = clock + 1
    /\ graphCalls' = graphCalls + 1
    /\ UNCHANGED <<texts, index, conversations, nextConvId, messages, saves>>
    /\ UNCHANGED aux

\* Neo4jDatabase.clear_conversation_memories
GraphClearConversation(conversation_id) ==
    /\ \E n \in nodes : n.conversation_id = conversation_id
    /\ \E g \in {graph_clear_conversation(Graph, conversation_id)} :
         /\ nodes' = g.nodes
         /\ edges' = g.edges
    /\ last' = [NoLast EXCEPT !.op = "graph_clear_conversation",
                              !.conv = conversation_id,
                              !.former = {n.timestamp : n \in {m \in nodes :
                                  m.conversation_id = conversation_id}}]
    /\ UNCHANGED <<texts, index, conversations, nextConvId, messages, clock,
                   saves, graphCalls>>
    /\ UNCHANGED aux

QueryPoints == {0, 2, 6}
RelatedDepth == 2

\* Neo4jDatabase.get_related_memories on a node of the graph
GraphGetRelated(timestamp, max_depth, conversation_id, include_cross_conversation) ==
    /\ timestamp \in NodeTimestamps(Graph)
    /\ \E r \in {get_related_memories(Graph, timestamp, max_depth,
                      RETRIEVAL_MIN_SIMILARITY, conversation_id,
                      include_cross_conversation)} :
          last' = [NoLast EXCEPT !.op = "get_related_memories",
                                 !.ret = timestamp,
                                 !.max_depth = max_depth,
                                 !.min_similarity = RETRIEVAL_MIN_SIMILARITY,
                                 !.conv = conversation_id,
                                 !.include_cross = include_cross_conversation,
                                 !.raised = r.raised,
                                 !.timestamps = r.memories]
    /\ UNCHANGED <<texts, index, nodes, edges, conversations, nextConvId,
                   messages, clock, saves, graphCalls>>
    /\ UNCHANGED aux

GraphNext ==
    \/ \E conv \in GraphConvArgs :
          \E cands \in IF graphCalls < MaxGraphCalls
                       THEN CandidateLists(Graph) ELSE {} :
             GraphCreate(<<"a">>, <<"x">>, conv, cands)
    \/ \E conv \in GraphConvArgs \ {None} : GraphClearConversation(conv)

GraphSpec == Init /\ [][GraphNext]_vars

\* ----------------------------------------------- the vector store on its own
\* The vector store driven through its own interface, with whatever
\* arguments a caller can hand to it.
StoreConvArgs == {None, 1}
StoreTexts == {FullText(<<"a">>, <<"x">>), FullText(<<"b">>, <<"x">>)}
StoreQueries == {Embed(FullText(<<"a">>, <<"x">>))}

\* the embedding arguments add_text is called with for a text: its
\* embedding, and for one of the texts a 0-dimensional array as well
EmbeddingArgs(t) ==
    IF t = FullText(<<"b">>, <<"x">>) THEN {Embed(t), Scalar} ELSE {Embed(t)}

\* the argument lists of add_texts_batch: the zip of texts and
\* conversation_ids (the timestamps are read from the clock)
Batches ==
    UNION {[1..n -> {[text |-> t, conversation_id |-> c] :
                        t \in StoreTexts, c \in {None}}] : n \in 1..MaxBatch}

Stamped(batch, clk) ==
    [i \in 1..Len(batch) |->
        [text |-> batch[i].text, timestamp |-> clk + i,
         conversation_id |-> batch[i].conversation_id]]

\* the matrices a caller may hand over with a batch: a row for each text, a
\* row for the leading texts only, or a 0-dimensional array
Matrices(batch) ==
    {[i \in 1..n |-> Embed(batch[i].text)] : n \in 1..Len(batch)}
        \cup {<<Scalar>>}

\* A search changes nothing but the record of the last operation, which the
\* next call overwrites, so the calls that change the store are taken from
\* the states no search has just been made in.

\* FAISSMemoryStore.add_text
AddText(text, embedding, conversation_id) ==
    /\ saves < MaxAdds
    /\ last.op # "search"
    /\ \E r \in {add_text_result(Store, text, embedding, clock + 1,
                                  conversation_id)} :
         /\ texts' = r.store.texts
         /\ index' = r.store.index
         /\ last' = [NoLast EXCEPT !.op = "add_text", !.ret = clock + 1,
                                   !.conv = conversation_id, !.ok = r.ok]
    /\ clock' = clock + 1
    /\ saves' = saves + 1
    /\ UNCHANGED <<nodes, edges, conversations, nextConvId, messages,
                   graphCalls>>
    /\ UNCHANGED aux

\* FAISSMemoryStore.add_texts_batch
AddTextsBatch(batch, embeddings) ==
    /\ saves + Len(batch) <= MaxAdds
    /\ last.op # "search"
    /\ \E r \in {add_texts_batch(Store, Stamped(batch, clock), embeddings)} :
         /\ texts' = r.store.texts
         /\ index' = r.store.index
         /\ last' = [NoLast EXCEPT !.op = "add_texts_batch", !.ok = r.ok]
    /\ clock' = clock + Len(batch)
    /\ saves' = saves + Len(batch)
    /\ UNCHANGED <<nodes, edges, conversations, nextConvId, messages,
                   graphCalls>>
    /\ UNCHANGED aux

\* FAISSMemoryStore.clear_memory
ClearMemory(conversation_id) ==
    /\ texts # <<>> \/ index # <<>>
    /\ last.op # "search"
    /\ \E st \in {clear_memory(Store, conversation_id)} :
         /\ texts' = st.texts
         /\ index' = st.index
    /\ last' = [NoLast EXCEPT !.op = "clear_memory", !.conv = conversation_id]
    /\ UNCHANGED <<nodes, edges, conversations, nextConvId, messages, clock,
                   saves, graphCalls>>
    /\ UNCHANGED aux

\* the records a search for conversation_id can report: those of the
\* conversation (all, without a filter) whose text parses and whose vector
\* is in the index
Matching(st, conversation_id) ==
    Cardinality({i \in 1..Min2(Len(st.texts), Len(st.index)) :
        /\ conversation_id # None =>
               st.texts[i].conversation_id = conversation_id
        /\ NumParts(st.texts[i].text) = 2})

\* FAISSMemoryStore.search
Search(q, k, conversation_id) ==
    /\ last.op # "search"
    /\ \E order \in FaissOrders(index, q) :
         last' = [NoLast EXCEPT
                    !.op = "search", !.k = k, !.conv = conversation_id,
                    !.query = q,
                    !.found = search(Store, q, k, conversation_id, order),
                    !.matching = Matching(Store, conversation_id)]
    /\ UNCHANGED <<texts, index, nodes, edges, conversations, nextConvId,
                   messages, clock, saves, graphCalls>>
    /\ UNCHANGED aux

StoreNext ==
    \/ \E t \in StoreTexts, conv \in StoreConvArgs :
          \E e \in EmbeddingArgs(t) : AddText(t, e, conv)
    \/ \E batch \in Batches :
          \E m \in Matrices(batch) : AddTextsBatch(batch, m)
    \/ \E conv \in StoreConvArgs : ClearMemory(conv)
    \/ \E q \in StoreQueries, k \in 0..MaxK, conv \in StoreConvArgs :
          Search(q, k, conv)

StoreSpec == Init /\ [][StoreNext]_vars

\* ------------------------------------------------- turns and the read path
\* Turns of one conversation and global turns, and the reads of context
\* between them.
ReadConvArgs == {None, 1}
ReadMessages == {<<"a">>, <<"b">>}

ReadQueries == {<<"a">>}

\* what rerank_documents may hand back for n documents and top_n: nothing
\* (the request failed), the first top_n documents in their order, the last
\* top_n documents from the last one backwards, or an index for every
\* document
RerankAnswers(n, top_n) ==
    LET len == Min2(n, top_n)
    IN  {<<>>, [i \in 1..len |-> i - 1], [i \in 1..len |-> n - i],
         [i \in 1..n |-> i - 1]}

ReadLast(op, r, query, max_memories, conversation_id, use_mysql_context) ==
    [NoLast EXCEPT !.op = op, !.um = query, !.k = max_memories,
                   !.conv = conversation_id, !.found = r.memories,
                   !.calls = r.calls,
                   !.use_mysql_context = use_mysql_context]

IsRead(op) ==
    op \in {"retrieve_memories", "get_context", "get_enhanced_context"}

\* a turn of the chat, up to the bound of this specification.  A read
\* changes nothing but the record of the last operation, which the next turn
\* overwrites, so turns are taken from the states no read has just been
\* made in.
ReadTurn(message, conversation_id) ==
    /\ saves < MaxTurns
    /\ ~IsRead(last.op)
    /\ ChatTurn(message, <<"x">>, conversation_id)

\* MemoryService._retrieve_memories
RetrieveMemories(query, max_memories, conversation_id, use_mysql_context) ==
    /\ ~IsRead(last.op)
    /\ \E r \in {retrieve_memories(messages, Store, Graph, query,
                      max_memories, conversation_id, use_mysql_context,
                      order) : order \in FaissOrders(index, Embed(query))} :
         last' = ReadLast("retrieve_memories", r, query, max_memories,
                          conversation_id, use_mysql_context)
    /\ UNCHANGED <<texts, index, nodes, edges, conversations, nextConvId,
                   messages, clock, saves, graphCalls>>
    /\ UNCHANGED aux

\* MemoryService.get_context
GetContext(query, max_memories, conversation_id, use_mysql_context) ==
    /\ ~IsRead(last.op)
    /\ \E r \in {get_context(messages, Store, Graph, query, max_memories,
                      conversation_id, use_mysql_context, order) :
                  order \in FaissOrders(index, Embed(query))} :
         last' = ReadLast("get_context", r, query, max_memories,
                          conversation_id, use_mysql_context)
    /\ UNCHANGED <<texts, index, nodes, edges, conversations, nextConvId,
                   messages, clock, saves, graphCalls>>
    /\ UNCHANGED aux

\* MemoryService.get_enhanced_context
GetEnhancedContext(query, max_memories, conversation_id, use_mysql_context, rerank_enabled) ==
    /\ ~IsRead(last.op)
    /\ \E r \in {enhanced_retrieve(messages, Store, Graph, query,
                      max_memories, conversation_id, use_mysql_context,
                      order) : order \in FaissOrders(index, Embed(query))} :
       \E answer \in IF rerank_enabled
                     THEN RerankAnswers(Len(r.memories), max_memories)
                     ELSE {<<>>} :
         last' = ReadLast("get_enhanced_context",
                          enhanced_rerank(r, max_memories, rerank_enabled,
                                          answer),
                          query, max_memories, conversation_id,
                          use_mysql_context)
    /\ UNCHANGED <<texts, index, nodes, edges, conversations, nextConvId,
                   messages, clock, saves, graphCalls>>
    /\ UNCHANGED aux

ReadNext ==
    \/ \E m \in ReadMessages, conv \in ReadConvArgs : ReadTurn(m, conv)
    \/ \E q \in ReadQueries, n \in 1..MaxMemories, conv \in ReadConvArgs :
          \E use \in BOOLEAN : RetrieveMemories(q, n, conv, use)
    \/ \E q \in ReadQueries, n \in 1..MaxMemories, conv \in ReadConvArgs :
          \E use \in BOOLEAN : GetContext(q, n, conv, use)
    \/ \E q \in ReadQueries, n \in 1..MaxMemories, conv \in ReadConvArgs :
          \E use \in BOOLEAN, rerank \in BOOLEAN :
             GetEnhancedContext(q, n, conv, use, rerank)

ReadSpec == Init /\ [][ReadNext]_vars

\* ------------------------------------------------------- turns with faults
\* Turns of the chat during which one provider or store may be down.
FaultMessages == {<<"a">>, <<"b">>}
FaultConvArgs == {None, 1}

\* ChatService.get_chat_response from the answer of the language model on,
\* with fault down.  With the history store down get_conversation returns
\* None, create_conversation returns 0 and the turn goes on without a
\* conversation.
FaultyTurn(message, full_response, conversation_id, fault) ==
    /\ saves < MaxFaultTurns
    /\ conversation_id # None =>
          (conversation_id \in conversations \/ nextConvId <= MaxConversations)
    /\ \E order \in FaissOrders(
                       faiss_step(Store, FullText(message, full_response),
                                  Embed(FullText(message, full_response)),
                                  clock + 1, conversation_id, fault).index,
                       Embed(FullText(message, full_response))) :
       \E r \in {save_conversation_under(fault, Store, Graph, clock, message,
                      full_response, conversation_id, order)} :
         LET history == conversation_id # None /\ fault # "history_write"
             missing == history /\ conversation_id \notin conversations
             hist == IF ~history THEN None
                     ELSE IF missing THEN nextConvId ELSE conversation_id
         IN  /\ texts' = r.store.texts
             /\ index' = r.store.index
             /\ nodes' = r.graph.nodes
             /\ edges' = r.graph.edges
             /\ clock' = r.clock
             /\ conversations' = IF missing
                                 THEN conversations \cup {nextConvId}
                                 ELSE conversations
             /\ nextConvId' = IF missing THEN nextConvId + 1 ELSE nextConvId
             /\ messages' = IF history
                            THEN save_message(messages, hist, r.ret, message,
                                              full_response)
                            ELSE messages
             /\ last' = [SaveLast("chat", r, message, full_response,
                                  conversation_id)
                           EXCEPT !.hist_conv = hist,
                                  !.calls = IF history
                                            THEN Append(r.calls, "history_write")
                                            ELSE r.calls,
                                  !.fault = fault,
                                  !.ok = r.ok,
                                  !.raised = FALSE,
                                  !.answered = TRUE]
    /\ saves' = saves + 1
    /\ UNCHANGED graphCalls
    /\ UNCHANGED aux

\* MemoryService.get_memory_statistics: reads both stores, writes neither
GetMemoryStatistics ==
    /\ \E r \in {get_memory_statistics(Store, Graph)} :
          last' = [NoLast EXCEPT !.op = "get_memory_statistics",
                                 !.count = r.faiss_count,
                                 !.matching = r.neo4j_node_count,
                                 !.is_consistent = r.is_consistent]
    /\ UNCHANGED <<texts, index, nodes, edges, conversations, nextConvId,
                   messages, clock, saves, graphCalls>>
    /\ UNCHANGED aux

FaultNext ==
    \/ \E m \in FaultMessages, conv \in FaultConvArgs, fault \in Faults :
          FaultyTurn(m, <<"x">>, conv, fault)
    \/ GetMemoryStatistics
    \/ \E t \in 1..MaxFaultTurns, depth \in 1..RelatedDepth :
          \E conv \in FaultConvArgs, cross \in BOOLEAN :
             GraphGetRelated(t, depth, conv, cross)

FaultSpec == Init /\ [][FaultNext]_vars

\* ------------------------------------------------------- reads with faults
\* Turns of the chat, and between them reads of the context during which one
\* provider or store may be down.
DegradeTurn(message, conversation_id) ==
    /\ saves < MaxFaultTurns
    /\ ~IsRead(last.op)
    /\ ChatTurn(message, <<"x">>, conversation_id)

\* MemoryService.get_enhanced_context with fault down
GetEnhancedContextUnder(fault, query, max_memories, conversation_id, use_mysql_context, rerank_enabled) ==
    /\ ~IsRead(last.op)
    /\ \E order \in FaissOrders(index, Embed(query)) :
       \E answer \in IF rerank_enabled /\ fault # "rerank"
                     THEN RerankAnswers(Len(texts), max_memories)
                     ELSE {<<>>} :
       \E r \in {retrieve_memories(rows_under(fault, messages),
                      store_under(fault, Store), Graph, query,
                      Max2(max_memories * RetrieveFactor, RetrieveFloor),
                      conversation_id, use_mysql_context, order)} :
       \E u \in {retrieve_memories_under(fault, r)} :
       \E e \in {enhanced_rerank_under(fault, u, max_memories,
                                       rerank_enabled, answer)} :
       \E out \in {except_returns_empty(e)} :
         last' = [ReadLast("get_enhanced_context", out, query, max_memories,
                           conversation_id, use_mysql_context)
                    EXCEPT !.fault = fault, !.raised = out.raised]
    /\ UNCHANGED <<texts, index, nodes, edges, conversations, nextConvId,
                   messages, clock, saves, graphCalls>>
    /\ UNCHANGED aux

\* MemoryService.get_context with fault down: the history read has its own
\* try/except, and an empty history falls through to the retrieval
GetContextUnder(fault, query, max_memories, conversation_id, use_mysql_context) ==
    /\ ~IsRead(last.op)
    /\ \E order \in FaissOrders(index, Embed(query)) :
       \E r \in {get_context(rows_under(fault, messages),
                      store_under(fault, Store), Graph, query, max_memories,
                      conversation_id, use_mysql_context, order)} :
       \E u \in {retrieve_memories_under(fault, r)} :
       \E out \in {except_returns_empty(u)} :
         last' = [ReadLast("get_context", out, query, max_memories,
                           conversation_id, use_mysql_context)
                    EXCEPT !.fault = fault, !.raised = out.raised]
    /\ UNCHANGED <<texts, index, nodes, edges, conversations, nextConvId,
                   messages, clock, saves, graphCalls>>
    /\ UNCHANGED aux

DegradeNext ==
    \/ \E m \in ReadMessages, conv \in ReadConvArgs : DegradeTurn(m, conv)
    \/ \E fault \in ReadFaults, q \in ReadQueries, n \in 1..MaxMemories :
          \E conv \in ReadConvArgs, use \in BOOLEAN, rerank \in BOOLEAN :
             GetEnhancedContextUnder(fault, q, n, conv, use, rerank)
    \/ \E fault \in ReadFaults, q \in ReadQueries, n \in 1..MaxMemories :
          \E conv \in ReadConvArgs, use \in BOOLEAN :
             GetContextUnder(fault, q, n, conv, use)

DegradeSpec == Init /\ [][DegradeNext]_vars

\* ------------------------------------------------------------- reranking
\* The three rerank functions applied to up to MaxDocs candidates.
MaxDocs == 3
MaxTopN == 3
RerankDocs == {[i \in 1..n |-> <<"d", i>>] : n \in 0..MaxDocs}
RerankScores(n) == [1..n -> {2000, 9000}]

RerankLast(op, documents, top_n, enabled, failed, result) ==
    [NoLast EXCEPT !.op = op, !.documents = documents, !.top_n = top_n,
                   !.enabled = enabled, !.failed = failed,
                   !.result = result]

UtilsRerankDocuments(documents, top_n, enabled, failed) ==
    /\ \E scores \in RerankScores(Len(documents)) :
          last' = RerankLast("utils_rerank_documents", documents, top_n,
                      enabled, failed,
                      utils_rerank_documents(documents, top_n, enabled,
                                             failed, scores))
    /\ UNCHANGED <<texts, index, nodes, edges, conversations, nextConvId,
                   messages, clock, saves, graphCalls>>
    /\ UNCHANGED aux

RerankDocuments(documents, top_n, enabled, failed) ==
    /\ \E scores \in RerankScores(Len(documents)) :
          last' = RerankLast("rerank_documents", documents, top_n,
                      enabled, failed,
                      rerank_documents(documents, top_n, enabled, failed,
                                       scores))
    /\ UNCHANGED <<texts, index, nodes, edges, conversations, nextConvId,
                   messages, clock, saves, graphCalls>>
    /\ UNCHANGED aux

RerankMemories(memories, top_n, enabled, failed) ==
    /\ \E scores \in RerankScores(Len(memories)) :
          last' = RerankLast("rerank_memories", memories, top_n,
                      enabled, failed,
                      rerank_memories_scored(memories, top_n, enabled,
                                             failed, scores))
    /\ UNCHANGED <<texts, index, nodes, edges, conversations, nextConvId,
                   messages, clock, saves, graphCalls>>
    /\ UNCHANGED aux

RerankNext ==
    \E documents \in RerankDocs, top_n \in 1..MaxTopN :
      \E enabled \in BOOLEAN, failed \in BOOLEAN :
         \/ UtilsRerankDocuments(documents, top_n, enabled, failed)
         \/ RerankDocuments(documents, top_n, enabled, failed)
         \/ RerankMemories(documents, top_n, enabled, failed)

RerankSpec == Init /\ [][RerankNext]_vars

\* ------------------------------------------------------- the entry points
\* The routes of api/router.py and main.py that take a chat request.
EntryMessages == {<<"a">>, <<"b">>}
EntryConvArgs == {None, 1, 2}
HTTP_500 == 500

\* the except of the endpoint: HTTPException(status_code=500); the 404 the
\* endpoint raised for the missing conversation is caught by it
Rejected(entry, message, conversation_id) ==
    /\ last' = [NoLast EXCEPT !.op = "chat", !.um = message,
                              !.conv = conversation_id,
                              !.entry = entry,
                              !.requested = conversation_id,
                              !.raised = TRUE, !.status = HTTP_500]
    /\ UNCHANGED <<texts, index, nodes, edges, conversations, nextConvId,
                   messages, clock, saves, graphCalls>>
    /\ UNCHANGED aux

\* POST /api/chat/chat
Chat(message, full_response, conversation_id) ==
    /\ saves < MaxSaves
    /\ IF conversation_id # None /\ conversation_id \notin conversations
       THEN Rejected("/api/chat/chat", message, conversation_id)
       ELSE ChatTurnFrom("/api/chat/chat", conversation_id, message,
                         full_response, conversation_id)

\* POST /api/chat/conversation_chat: conversation_id is required
ConversationChat(message, full_response, conversation_id) ==
    /\ saves < MaxSaves
    /\ conversation_id # None
    /\ IF conversation_id \notin conversations
       THEN Rejected("/api/chat/conversation_chat", message, conversation_id)
       ELSE ChatTurnFrom("/api/chat/conversation_chat", conversation_id,
                         message, full_response, conversation_id)

\* POST /v1/chat/completions: a conversation that does not exist is
\* replaced by a new one (mysql_db.create_conversation), and the turn goes
\* on under the new id
ChatCompletions(message, full_response, conversation_id) ==
    /\ saves < MaxSaves
    /\ IF conversation_id # None /\ conversation_id \notin conversations
       THEN ChatTurnFrom("/v1/chat/completions", conversation_id, message,
                         full_response, nextConvId)
       ELSE ChatTurnFrom("/v1/chat/completions", conversation_id, message,
                         full_response, conversation_id)

EntryNext ==
    \/ \E m \in EntryMessages, conv \in EntryConvArgs :
          \/ Chat(m, <<"x">>, conv)
          \/ ConversationChat(m, <<"x">>, conv)
          \/ ChatCompletions(m, <<"x">>, conv)
    \/ CreateConversation

EntrySpec == Init /\ [][EntryNext]_vars

\* ---------------------------------------------------- saves and restarts
\* add_text with its save, the process restarted, and the file removed or
\* damaged from outside.
PersistEmbeddings == {0, 2}

FileKind(file) ==
    IF file = NoFile THEN "missing"
    ELSE IF file = Unreadable THEN "corrupt"
    ELSE "loaded"

\* FAISSMemoryStore.add_text with an embedding it accepts
PersistAddText(text, embedding, conversation_id) ==
    /\ saves < MaxAdds
    /\ \E st \in {add_text(Store, text, embedding, clock + 1,
                            conversation_id)} :
         /\ texts' = st.texts
         /\ index' = st.index
         /\ blob' = IF should_save(Len(st.texts)) THEN save_index(st)
                    ELSE blob
         /\ last' = [NoLast EXCEPT !.op = "add_text", !.ret = clock + 1,
                                   !.conv = conversation_id, !.ok = TRUE,
                                   !.before = texts]
    /\ clock' = clock + 1
    /\ saves' = saves + 1
    /\ UNCHANGED <<nodes, edges, conversations, nextConvId, messages,
                   graphCalls>>
    /\ UNCHANGED <<pc, adding, retained, issued, stamps, backup>>

\* the process starts again: memory_store = FAISSMemoryStore()
Restart ==
    /\ last.op # "construct"
    /\ \E r \in {construct(blob)} :
         /\ texts' = r.store.texts
         /\ index' = r.store.index
         /\ blob' = r.file
         /\ last' = [NoLast EXCEPT !.op = "construct",
                                   !.file = FileKind(blob),
                                   !.before = texts,
                                   !.raised = r.raised]
    /\ UNCHANGED <<nodes, edges, conversations, nextConvId, messages, clock,
                   saves, graphCalls>>
    /\ UNCHANGED <<pc, adding, retained, issued, stamps, backup>>

\* the file is removed
RemoveFile ==
    /\ blob # NoFile
    /\ blob' = NoFile
    /\ UNCHANGED <<texts, index, nodes, edges, conversations, nextConvId,
                   messages, clock, saves, graphCalls, last>>
    /\ UNCHANGED <<pc, adding, retained, issued, stamps, backup>>

\* the file is overwritten with bytes that do not unpickle
DamageFile ==
    /\ blob # Unreadable
    /\ blob' = Unreadable
    /\ UNCHANGED <<texts, index, nodes, edges, conversations, nextConvId,
                   messages, clock, saves, graphCalls, last>>
    /\ UNCHANGED <<pc, adding, retained, issued, stamps, backup>>

PersistNext ==
    \/ \E e \in PersistEmbeddings : PersistAddText(<<"a">>, e, None)
    \/ Restart
    \/ RemoveFile
    \/ DamageFile

PersistSpec == Init /\ [][PersistNext]_vars

\* ------------------------------------------- embeddings of any dimension
\* add_text called with vectors of 0 to MaxDim components; here a vector of
\* the index is the sequence of its components.
MaxDim == 3
MaxDimAdds == 3
RECURSIVE Vectors(_)
Vectors(n) ==
    IF n = 0 THEN {<<>>}
    ELSE Vectors(n - 1)
         \cup {Append(v, c) : v \in {w \in Vectors(n - 1) : Len(w) = n - 1},
                              c \in {1, 2}}

AddTextOfDimension(text, embedding, conversation_id) ==
    /\ saves < MaxDimAdds
    /\ \E r \in {add_text_fitted(Store, text, embedding, clock + 1,
                                  conversation_id)} :
         /\ texts' = r.store.texts
         /\ index' = r.store.index
         /\ last' = [NoLast EXCEPT !.op = "add_text", !.ret = clock + 1,
                                   !.conv = conversation_id, !.ok = r.ok,
                                   !.embedding = embedding,
                                   !.before = texts,
                                   !.count = Len(index)]
    /\ clock' = clock + 1
    /\ saves' = saves + 1
    /\ UNCHANGED <<nodes, edges, conversations, nextConvId, messages,
                   graphCalls>>
    /\ UNCHANGED aux

DimNext ==
    \E embedding \in Vectors(MaxDim) :
       AddTextOfDimension(<<"a">>, embedding, None)

DimSpec == Init /\ [][DimNext]_vars

\* ------------------------------------------------ the embedding request
\* get_embedding called on a text, and the provider answering each request.
\* While a request is open last.before is the text sent and last.count the
\* number of requests sent for the call.
MaxBody == 44
Blank(n) == [i \in 1..n |-> " "]
Body(n) == [i \in 1..n |-> "x"]
EmbedTexts ==
    {Blank(i) \o Body(n) \o Blank(j) : i \in 0..1, j \in 0..1, n \in 0..MaxBody}
    \cup {Body(max_chars), Body(max_chars + 1)}
ProviderAnswers ==
    {[status |-> HTTP_200, too_long |-> FALSE],
     [status |-> HTTP_413, too_long |-> TRUE],
     [status |-> HTTP_413, too_long |-> FALSE],
     [status |-> HTTP_500, too_long |-> FALSE]}

GetEmbeddingCall(text) ==
    /\ last.op # "embedding_request"
    /\ \E r \in {get_embedding_prepare(text)} :
          last' = [NoLast EXCEPT
                     !.op = IF r.raised THEN "get_embedding_raised"
                            ELSE "embedding_request",
                     !.um = text,
                     !.before = r.text,
                     !.count = IF r.raised THEN 0 ELSE 1,
                     !.raised = r.raised]
    /\ UNCHANGED <<texts, index, nodes, edges, conversations, nextConvId,
                   messages, clock, saves, graphCalls>>
    /\ UNCHANGED aux

ProviderAnswer(answer) ==
    /\ last.op = "embedding_request"
    /\ \E r \in {on_provider_answer(last.before, answer.status,
                                     answer.too_long)} :
          last' = [last EXCEPT
                     !.op = IF r.next = "request" THEN "embedding_request"
                            ELSE IF r.next = "returned"
                            THEN "get_embedding_returned"
                            ELSE "get_embedding_raised",
                     !.before = r.text,
                     !.count = IF r.next = "request" THEN @ + 1 ELSE @,
                     !.status = answer.status,
                     !.failed = answer.too_long,
                     !.raised = r.next = "raised"]
    /\ UNCHANGED <<texts, index, nodes, edges, conversations, nextConvId,
                   messages, clock, saves, graphCalls>>
    /\ UNCHANGED aux

ProviderAnswersSome == \E answer \in ProviderAnswers : ProviderAnswer(answer)

EmbedNext ==
    \/ \E text \in EmbedTexts : GetEmbeddingCall(text)
    \/ ProviderAnswersSome

\* every request is answered: requests.post carries a timeout
EmbedSpec == Init /\ [][EmbedNext]_vars /\ WF_vars(ProviderAnswersSome)

\* ------------------------------- a conversation deleted under a chat turn
\* get_chat_response awaits the language model between building the prompt
\* and saving the turn; other requests are served meanwhile.
SuspendMessages == {<<"a">>, <<"b">>}

\* get_chat_response up to "await self.client.chat.completions.create"
TurnAwaits(message, conversation_id) ==
    /\ saves < MaxSaves
    /\ pc.turn.at = "idle"
    /\ conversation_id \in conversations
    /\ pc' = [pc EXCEPT !.turn = [at |-> "awaiting", message |-> message,
                                  conversation_id |-> conversation_id,
                                  deleted_meanwhile |-> FALSE]]
    /\ last' = [NoLast EXCEPT !.op = "await", !.um = message,
                              !.conv = conversation_id]
    /\ UNCHANGED <<texts, index, nodes, edges, conversations, nextConvId,
                   messages, clock, saves, graphCalls>>
    /\ UNCHANGED <<adding, retained, blob, issued, stamps, backup>>

\* ConversationService.delete_conversation
DeleteConversation(conversation_id) ==
    /\ conversation_id \in conversations
    /\ \E r \in {delete_conversation(Store, Graph, conversations, messages,
                                      conversation_id)} :
          /\ texts' = r.memory.store.texts
          /\ index' = r.memory.store.index
          /\ nodes' = r.memory.graph.nodes
          /\ edges' = r.memory.graph.edges
          /\ conversations' = r.history.conversations
          /\ messages' = r.history.messages
    /\ pc' = [pc EXCEPT !.turn.deleted_meanwhile =
                 @ \/ (pc.turn.at = "awaiting"
                       /\ pc.turn.conversation_id = conversation_id)]
    /\ last' = [NoLast EXCEPT !.op = "delete_conversation",
                              !.conv = conversation_id]
    /\ UNCHANGED <<nextConvId, clock, saves, graphCalls>>
    /\ UNCHANGED <<adding, retained, blob, issued, stamps, backup>>

\* get_chat_response from the answer of the language model on
TurnResumes(full_response) ==
    /\ pc.turn.at = "awaiting"
    /\ ChatTurnSteps("get_chat_response", pc.turn.conversation_id,
                     pc.turn.message, full_response, pc.turn.conversation_id)
    /\ pc' = [pc EXCEPT !.turn = NoTurn]
    /\ UNCHANGED <<adding, retained, blob, issued, stamps, backup>>

SuspendNext ==
    \/ CreateConversation
    \/ \E message \in SuspendMessages, conv \in ConvIds :
          TurnAwaits(message, conv)
    \/ \E conv \in ConvIds : DeleteConversation(conv)
    \/ \E ar \in AiResponses : TurnResumes(ar)

SuspendSpec == Init /\ [][SuspendNext]_vars

\* ------------------------------------- turns the model answers with nothing
\* response.choices[0].message.content may be the empty string; the turn is
\* saved all the same.
EmptyMessages == {<<>>, <<"a">>, <<"b">>}
EmptyResponses == {<<>>, <<"x">>}

AnsweredTurn(message, full_response, conversation_id) ==
    /\ saves < MaxSaves
    /\ conversation_id \in conversations
    /\ ChatTurn(message, full_response, conversation_id)

EmptyNext ==
    \/ CreateConversation
    \/ \E message \in EmptyMessages, full_response \in EmptyResponses,
          conv \in ConvIds : AnsweredTurn(message, full_response, conv)
    \/ /\ graphCalls < MaxRelatedCalls
       /\ GraphCreate(<<"a">>, <<"x">>, None, <<>>)

EmptySpec == Init /\ [][EmptyNext]_vars

\* ------------------------------------------- related memories of the graph
\* get_related_memories on graphs that create_memory_with_relations built
RelatedNext ==
    \/ \E conv \in GraphConvArgs :
          \E cands \in IF graphCalls < MaxRelatedCalls
                       THEN CandidateLists(Graph) ELSE {} :
             GraphCreate(<<"a">>, <<"x">>, conv, cands)
    \/ \E t \in 1..MaxRelatedCalls, depth \in 1..MaxDepth :
          \E conv \in GraphConvArgs, cross \in BOOLEAN :
             /\ last.op # "get_related_memories"
             /\ GraphGetRelated(t, depth, conv, cross)

RelatedSpec == Init /\ [][RelatedNext]_vars

\* ------------------------------------- clearing one conversation's memories
\* turns of several conversations, some with the vector store or the graph
\* store down, relationships made by create_memory_with_relations, and
\* MemoryService.clear_conversation_memories
FrameFaults == {"none", "vector_write"}

FrameNext ==
    \/ \E conv \in ConvArgs, fault \in FrameFaults :
          FaultyTurn(<<"a">>, <<"x">>, conv, fault)
    \/ \E conv \in GraphConvArgs :
          \E cands \in IF graphCalls < MaxRelatedCalls
                       THEN {<<>>} \cup {<<c>> : c \in Candidates(Graph)}
                       ELSE {} :
             GraphCreate(<<"a">>, <<"x">>, conv, cands)
    \/ \E conv \in ConvIds : ClearConversationMemories(conv)

FrameSpec == Init /\ [][FrameNext]_vars

\* -------------------------------------------------- backups and restores
\* records added to the vector store, memories created in the graph store,
\* backup_memories and restore_memories on the path it returned.
\* backup.then is what the two stores held when the backup was taken.
BackupMemories ==
    /\ last.op # "backup_memories"
    /\ \E r \in {backup_memories(blob, Graph)} :
         /\ backup' = [then |-> [texts |-> texts, index |-> index,
                                 nodes |-> nodes, edges |-> edges]]
                       @@ r.backup
         /\ last' = [NoLast EXCEPT !.op = "backup_memories",
                                   !.raised = r.raised]
    /\ UNCHANGED <<texts, index, nodes, edges, conversations, nextConvId,
                   messages, clock, saves, graphCalls>>
    /\ UNCHANGED <<pc, adding, retained, blob, issued, stamps>>

RestoreMemories ==
    /\ last.op # "restore_memories"
    /\ backup.exists
    /\ \E r \in {restore_memories(backup, Store, Graph, blob)} :
         /\ texts' = r.store.texts
         /\ index' = r.store.index
         /\ nodes' = r.graph.nodes
         /\ edges' = r.graph.edges
         /\ blob' = r.file
         /\ last' = [NoLast EXCEPT !.op = "restore_memories",
                                   !.ok = r.ret]
    /\ UNCHANGED <<conversations, nextConvId, messages, clock, saves,
                   graphCalls>>
    /\ UNCHANGED <<pc, adding, retained, issued, stamps, backup>>

BackupNext ==
    \/ \E conv \in GraphConvArgs : PersistAddText(<<"a">>, 0, conv)
    \/ \E conv \in GraphConvArgs :
          \E cands \in IF graphCalls < MaxRelatedCalls
                       THEN CandidateLists(Graph) ELSE {} :
             GraphCreate(<<"a">>, <<"x">>, conv, cands)
    \/ BackupMemories
    \/ RestoreMemories

BackupSpec == Init /\ [][BackupNext]_vars

\* ------------------------------------------- callers of save_message
\* MySQLStore.save_message statement by statement, each statement on a
\* connection of its own from the pool and committed on its own.
MaxSaveCalls == 3
SaveStamps == {NoTimestamp, 1}

SaveMessageCall(caller, conversation_id, timestamp) ==
    /\ saves < MaxSaveCalls
    /\ pc.save[caller].at \in {"idle", "done"}
    /\ pc' = [pc EXCEPT !.save[caller] =
                 [NoCall EXCEPT !.at = "select_conversation",
                                !.conversation_id = conversation_id,
                                !.timestamp = timestamp]]
    /\ saves' = saves + 1
    /\ last' = [NoLast EXCEPT !.op = "save_message", !.conv = conversation_id,
                              !.ret = timestamp]
    /\ UNCHANGED <<texts, index, nodes, edges, conversations, nextConvId,
                   messages, clock, graphCalls>>
    /\ UNCHANGED <<adding, retained, blob, issued, stamps, backup>>

\* "SELECT id FROM conversations WHERE id = %s" and the return False
SaveSelectConversation(caller) ==
    /\ pc.save[caller].at = "select_conversation"
    /\ pc' = [pc EXCEPT !.save[caller] =
                 IF pc.save[caller].conversation_id \in conversations
                 THEN [@ EXCEPT !.at = "select_count"]
                 ELSE [@ EXCEPT !.at = "done", !.ret = FALSE]]
    /\ UNCHANGED <<texts, index, nodes, edges, conversations, nextConvId,
                   messages, clock, saves, graphCalls, last>>
    /\ UNCHANGED <<adding, retained, blob, issued, stamps, backup>>

\* the check for a row of the same timestamp and the return True
SaveSelectCount(caller) ==
    /\ pc.save[caller].at = "select_count"
    /\ pc' = [pc EXCEPT !.save[caller] =
                 IF count_messages(messages, pc.save[caller].conversation_id,
                                   pc.save[caller].timestamp) > 0
                 THEN [@ EXCEPT !.at = "done", !.ret = TRUE]
                 ELSE [@ EXCEPT !.at = "insert"]]
    /\ UNCHANGED <<texts, index, nodes, edges, conversations, nextConvId,
                   messages, clock, saves, graphCalls, last>>
    /\ UNCHANGED <<adding, retained, blob, issued, stamps, backup>>

\* the INSERT, its commit, and the return True
SaveInsert(caller) ==
    /\ pc.save[caller].at = "insert"
    /\ messages' = insert_message(messages, pc.save[caller].conversation_id,
                                  pc.save[caller].timestamp, <<"a">>, <<"x">>)
    /\ pc' = [pc EXCEPT !.save[caller] =
                 [@ EXCEPT !.at = "done", !.ret = TRUE, !.inserted = TRUE]]
    /\ UNCHANGED <<texts, index, nodes, edges, conversations, nextConvId,
                   clock, saves, graphCalls, last>>
    /\ UNCHANGED <<adding, retained, blob, issued, stamps, backup>>

SaveNext ==
    \/ CreateConversation
    \/ \E caller \in Callers, conv \in ConvIds, timestamp \in SaveStamps :
          SaveMessageCall(caller, conv, timestamp)
    \/ \E caller \in Callers : SaveSelectConversation(caller)
    \/ \E caller \in Callers : SaveSelectCount(caller)
    \/ \E caller \in Callers : SaveInsert(caller)

SaveSpec == Init /\ [][SaveNext]_vars

\* ------------------------------------------- looking a record up again
\* chat turns, and FAISSMemoryStore.get_memory_by_timestamp on the
\* timestamps they returned
GetMemoryByTimestamp(timestamp) ==
    /\ last.op # "get_memory_by_timestamp"
    /\ last' = [NoLast EXCEPT
                  !.op = "get_memory_by_timestamp", !.ret = timestamp,
                  !.found = faiss_get_memory_by_timestamp(Store, timestamp)]
    /\ UNCHANGED <<texts, index, nodes, edges, conversations, nextConvId,
                   messages, clock, saves, graphCalls>>
    /\ UNCHANGED aux

LookupNext ==
    \/ \E um \in UserMessages, ar \in AiResponses, conv \in ConvArgs :
          GetChatResponse(um, ar, conv)
    \/ \E timestamp \in 1..(2 * MaxSaves) : GetMemoryByTimestamp(timestamp)

LookupSpec == Init /\ [][LookupNext]_vars

\* ------------------------------------ two threads on the one vector store
\* The store is one object for the whole process and its methods take no
\* lock: a thread in add_text and a thread in clear_memory of a conversation
\* take their steps in any order.  The server as shipped calls the store from
\* the one thread of its event loop; this specification is the store under
\* callers that do run side by side.
ConcTexts == {FullText(<<"a">>, <<"x">>), FullText(<<"b">>, <<"x">>)}
ConcAddConvs == {1, 2}
ConcClearConvs == {1}

\* add_text, "self.texts.append({...})"
AddAppend(text, conversation_id) ==
    /\ pc.add = "idle"
    /\ saves < MaxConcAdds
    /\ LET record == [text |-> text, timestamp |-> clock + 1,
                      conversation_id |-> conversation_id]
       IN  /\ texts' = Append(texts, record)
           /\ adding' = [record |-> record, embedding |-> Embed(text)]
           /\ issued' = Append(issued, record)
    /\ clock' = clock + 1
    /\ saves' = saves + 1
    /\ pc' = [pc EXCEPT !.add = "index_add"]
    /\ UNCHANGED <<index, nodes, edges, conversations, nextConvId, messages,
                   graphCalls, last, retained, blob, stamps, backup>>

\* add_text, "self.index.add(embedding)"
AddIndexAdd ==
    /\ pc.add = "index_add"
    /\ index' = Append(index, adding.embedding)
    /\ pc' = [pc EXCEPT !.add = "save_index"]
    /\ UNCHANGED <<texts, nodes, edges, conversations, nextConvId, messages,
                   clock, saves, graphCalls, last, adding, retained, blob,
                   issued, stamps, backup>>

\* add_text, "self.save_index()" and the return
AddSaveIndex ==
    /\ pc.add = "save_index"
    /\ blob' = [index |-> index, texts |-> texts]
    /\ adding' = NoAdding
    /\ pc' = [pc EXCEPT !.add = "idle"]
    /\ UNCHANGED <<texts, index, nodes, edges, conversations, nextConvId,
                   messages, clock, saves, graphCalls, last, retained, issued,
                   stamps, backup>>

\* clear_memory(conversation_id), the loop that fills retained_texts and
\* retained_embeddings
ClearCollect(conversation_id) ==
    /\ pc.clear = "idle"
    /\ texts # <<>>
    /\ \E kept \in {clear_memory(Store, conversation_id)} :
          retained' = [texts |-> kept.texts, embeddings |-> kept.index,
                       conversation_id |-> conversation_id]
    /\ pc' = [pc EXCEPT !.clear = "create_new_index"]
    /\ UNCHANGED <<texts, index, nodes, edges, conversations, nextConvId,
                   messages, clock, saves, graphCalls, last, adding, blob,
                   issued, stamps, backup>>

\* clear_memory, "self._create_new_index()": a new index and "self.texts = []"
ClearCreateNewIndex ==
    /\ pc.clear = "create_new_index"
    /\ index' = <<>>
    /\ texts' = <<>>
    /\ pc' = [pc EXCEPT !.clear = "index_add"]
    /\ UNCHANGED <<nodes, edges, conversations, nextConvId, messages, clock,
                   saves, graphCalls, last, adding, retained, blob, issued,
                   stamps, backup>>

\* clear_memory, "if retained_embeddings: ... self.index.add(...)"
ClearIndexAdd ==
    /\ pc.clear = "index_add"
    /\ index' = index \o retained.embeddings
    /\ pc' = [pc EXCEPT !.clear = "set_texts"]
    /\ UNCHANGED <<texts, nodes, edges, conversations, nextConvId, messages,
                   clock, saves, graphCalls, last, adding, retained, blob,
                   issued, stamps, backup>>

\* clear_memory, "self.texts = retained_texts"
ClearSetTexts ==
    /\ pc.clear = "set_texts"
    /\ texts' = retained.texts
    /\ pc' = [pc EXCEPT !.clear = "save_index"]
    /\ UNCHANGED <<index, nodes, edges, conversations, nextConvId, messages,
                   clock, saves, graphCalls, last, adding, retained, blob,
                   issued, stamps, backup>>

\* clear_memory, "self.save_index()" and the return
ClearSaveIndex ==
    /\ pc.clear = "save_index"
    /\ blob' = [index |-> index, texts |-> texts]
    /\ retained' = [NoRetained EXCEPT
                       !.conversation_id = retained.conversation_id]
    /\ pc' = [pc EXCEPT !.clear = "idle"]
    /\ UNCHANGED <<texts, index, nodes, edges, conversations, nextConvId,
                   messages, clock, saves, graphCalls, last, adding, issued,
                   stamps, backup>>

ConcNext ==
    \/ \E t \in ConcTexts, conv \in ConcAddConvs : AddAppend(t, conv)
    \/ AddIndexAdd
    \/ AddSaveIndex
    \/ \E conv \in ConcClearConvs : ClearCollect(conv)
    \/ ClearCreateNewIndex
    \/ ClearIndexAdd
    \/ ClearSetTexts
    \/ ClearSaveIndex

ConcSpec == Init /\ [][ConcNext]_vars

\* ------------------------------------------------------------ the wall clock
\* Memory.generate_timestamp formats one reading of datetime.now(), the local
\* wall clock: the reading is all the timestamp depends on.  Between two
\* calls the clock may have gone on, may still show the same microsecond, or
\* may have been set back (a correction of the clock, the end of daylight
\* saving time).
RECURSIVE Digits(_, _)
\* n in decimal, padded with zeros to width digits, as strftime pads
Digits(n, width) ==
    IF width = 0 THEN <<>>
    ELSE Append(Digits(n \div 10, width - 1), n % 10)

\* Memory.generate_timestamp for the reading now of the clock
generate_timestamp(now) == Digits(now, TimestampDigits)

RECURSIVE SortsBefore(_, _)
\* s < t as strings
SortsBefore(s, t) ==
    IF t = <<>> THEN FALSE
    ELSE IF s = <<>> THEN TRUE
    ELSE IF Head(s) # Head(t) THEN Head(s) < Head(t)
    ELSE SortsBefore(Tail(s), Tail(t))

\* the clock goes on
Tick ==
    /\ clock < MaxClock
    /\ clock' = clock + 1
    /\ UNCHANGED <<texts, index, nodes, edges, conversations, nextConvId,
                   messages, saves, graphCalls, last>>
    /\ UNCHANGED aux

\* the clock is set back
StepBack ==
    /\ clock > 0
    /\ clock' = clock - 1
    /\ UNCHANGED <<texts, index, nodes, edges, conversations, nextConvId,
                   messages, saves, graphCalls, last>>
    /\ UNCHANGED aux

\* a save calls Memory.generate_timestamp()
GenerateTimestamp ==
    /\ Len(stamps) < MaxStamps
    /\ stamps' = Append(stamps, generate_timestamp(clock))
    /\ UNCHANGED <<texts, index, nodes, edges, conversations, nextConvId,
                   messages, clock, saves, graphCalls, last, pc, adding,
                   retained, blob, issued, backup>>

ClockNext ==
    \/ Tick
    \/ StepBack
    \/ GenerateTimestamp

ClockSpec == Init /\ [][ClockNext]_vars

\* ------------------------------------------------------------------- claims
LastWasTurn == last.op = "chat" /\ last.ret # NoTimestamp

HasRecord(timestamp) ==
    \E i \in 1..Len(texts) : texts[i].timestamp = timestamp
HasNode(timestamp) == timestamp \in NodeTimestamps(Graph)
HasRow(conversation_id, timestamp) ==
    \E i \in 1..Len(messages) : /\ messages[i].conversation_id = conversation_id
                                /\ messages[i].timestamp = timestamp

\* C1: saving the identical (user_message, ai_response) a second time in the
\* same conversation, the second turn being at least as similar to the first
\* as the dedup cutoff, returns the timestamp the first save returned.
C1_SecondSaveReturnsFirstTimestamp ==
    (/\ LastWasTurn
     /\ last.twins # {}
     /\ Similarity(Distance(Embed(FullText(last.um, last.ar)),
                            Embed(FullText(last.um, last.ar)))) >= DedupCutoff)
    => last.ret \in last.twins

\* the candidates of the last turn that reach the dedup cutoff
CutoffCandidates ==
    {c \in Range(last.cands) : c.similarity >= DedupCutoff}

\* C2: when some candidate, of whatever conversation, has a similarity of at
\* least the dedup cutoff, create_memory_with_relations returns that
\* candidate's timestamp and creates neither node nor relationship, and the
\* vector store holds no new record for the turn afterwards.
C2_DuplicateCreatesNothing ==
    (LastWasTurn /\ CutoffCandidates # {})
    => /\ last.graph_ret \in {c.timestamp : c \in CutoffCandidates}
       /\ ~last.created
       /\ ~\E e \in edges : e.src = last.graph_ret \/ e.dst = last.graph_ret
       /\ ~HasRecord(last.ret)

\* C3: the write path of a completed turn runs embed, vector-store lookup,
\* graph-store write, vector-store write, history-store write in this order,
\* so the turn's own record is never among its candidates.
C3_LookupBeforeOwnWrite ==
    (LastWasTurn /\ last.conv # None)
    => /\ last.calls = <<"embed", "vector_search", "graph_write",
                         "vector_write", "history_write">>
       /\ \A c \in Range(last.cands) : c.timestamp # last.ret

\* C4: after the save of a turn that duplicates nothing, the vector-store
\* record, the graph node and (for a turn of a conversation) the history row
\* of the turn all carry the timestamp save_conversation returned.
C4_OneTimestampAcrossStores ==
    (LastWasTurn /\ ~last.had_duplicate)
    => /\ HasRecord(last.ret)
       /\ HasNode(last.ret)
       /\ last.conv # None => HasRow(last.hist_conv, last.ret)

\* C5: whatever saves and clears have run, the vector store holds as many
\* records as the graph store holds nodes (is_consistent is true).
C5_StoresConsistent == is_consistent(Store, Graph)


\* C6: after clear_conversation_memories(c) a search filtered to c returns
\* nothing and get_related_memories on a former timestamp of c returns the
\* empty list.
C6_ClearedConversationIsGone ==
    last.op = "clear_conversation"
    => /\ \A q \in QueryPoints : \A order \in FaissOrders(index, q) :
             search(Store, q, SaveSearchK, last.conv, order) = <<>>
       /\ \A t \in last.former : \A conv \in {None, last.conv} :
             \A cross \in BOOLEAN :
                LET r == get_related_memories(Graph, t, RelatedDepth,
                             RETRIEVAL_MIN_SIMILARITY, conv, cross)
                IN  ~r.raised /\ r.memories = {}

\* C7: a keyword purge removes the matching memories from both stores and
\* returns their number and their timestamps.
C7_PurgeReportsAndRemoves ==
    last.op = "clear_keyword"
    => /\ last.count = Cardinality(last.deleted)
       /\ last.timestamps = last.deleted
       /\ \A t \in last.deleted : ~HasRecord(t)

LastCreatedNode ==
    last.op = "create_memory_with_relations" /\ last.created

NodeConversation(timestamp) ==
    (CHOOSE n \in nodes : n.timestamp = timestamp).conversation_id

C9_CrossEdgesNeedMargin ==
    \A e \in edges :
        (e.cross_conversation
         \/ NodeConversation(e.src) # NodeConversation(e.dst))
        => e.similarity >= RETRIEVAL_MIN_SIMILARITY + CrossMargin

\* the relationships of the graph apart from the pair joining a and b
WithoutPair(a, b) ==
    [nodes |-> nodes,
     edges |-> {e \in edges : ~(\/ (e.src = a /\ e.dst = b)
                                \/ (e.src = b /\ e.dst = a))}]

\* C10: create_memory_with_relations relates its new node to a candidate only
\* when no path of at most max_depth relationships joins the two already, a
\* path through a relationship made earlier in the same call included: no
\* relationship of the graph has a path of that length beside it.
C10_NoRedundantEdge ==
    \A e \in edges :
        e.dst \notin ReachWithin(WithoutPair(e.src, e.dst), {e.src}, MaxPathLen)

\* a call has just left a candidate within the band unrelated because a path
\* through a relationship of the new node reaches it
C10_Witness ==
    /\ LastCreatedNode
    /\ last.skipped # {}
    /\ \A t \in last.skipped :
          /\ t \in ReachWithin(Graph, {last.ret}, MaxPathLen)
          /\ ~\E e \in edges : e.src = last.ret /\ e.dst = t

\* the graph holds nodes for the turns a and b and the pair of SIMILAR_TO
\* relationships between them, with this similarity
RelatedNodes(a, b, similarity) ==
    \E na, nb \in nodes :
        /\ na.user_message_preview = Preview(ParsedUser(a.text))
        /\ nb.user_message_preview = Preview(ParsedUser(b.text))
        /\ na.conversation_id = a.conversation_id
        /\ nb.conversation_id = b.conversation_id
        /\ na.timestamp # nb.timestamp
        /\ \E e, f \in edges :
              /\ e.src = na.timestamp /\ e.dst = nb.timestamp
              /\ f.src = nb.timestamp /\ f.dst = na.timestamp
              /\ e.similarity = similarity /\ f.similarity = similarity

\* C11: global memory A and then global memory B saved through
\* save_conversation, B's similarity to A within [threshold, dedup cutoff)
\* and no path between them: after B's save the graph holds a node for B
\* and the SIMILAR_TO relationship A-B in both directions with that
\* similarity.
C11_SequentialSavesAreRelated ==
    (/\ LastWasTurn
     /\ last.conv = None
     /\ Len(texts) = 2 /\ Len(index) = 2
     /\ texts[1].conversation_id = None /\ texts[2].conversation_id = None
     /\ texts[2].timestamp = last.ret
     /\ NumParts(texts[1].text) = 2 /\ NumParts(texts[2].text) = 2
     /\ Similarity(Distance(index[1], index[2])) >= RETRIEVAL_MIN_SIMILARITY
     /\ Similarity(Distance(index[1], index[2])) < DedupCutoff)
    => RelatedNodes(texts[1], texts[2],
                    Similarity(Distance(index[1], index[2])))

\* C12: for every k, every content of the store and every conversation
\* filter, FAISSMemoryStore.search returns at most k results, each with a
\* similarity within [0, 1], in non-increasing order of similarity, and with
\* a filter each result belongs to the conversation of the filter.
C12_SearchBoundedSortedFiltered ==
    last.op = "search"
    => /\ Len(last.found) <= last.k
       /\ \A i \in 1..Len(last.found) :
             /\ 0 <= last.found[i].similarity
             /\ last.found[i].similarity <= SimOne
       /\ \A i, j \in 1..Len(last.found) :
             i < j => last.found[i].similarity >= last.found[j].similarity
       /\ last.conv # None =>
             \A i \in 1..Len(last.found) :
                last.found[i].conversation_id = last.conv

\* a filtered search that had more records to report than k, reported k of
\* them, and reported results of different similarity
C12_Witness ==
    /\ last.op = "search"
    /\ last.conv # None
    /\ last.matching > last.k
    /\ Len(last.found) = last.k
    /\ Len(last.found) >= 2
    /\ last.found[1].similarity > last.found[Len(last.found)].similarity
    /\ \E i \in 1..Len(texts) : texts[i].conversation_id # last.conv

\* C18: after any sequence of add_text, add_texts_batch and clear_memory
\* calls, calls that fail part-way and return False included, the record list
\* and the index have the same length and the vector at position i of the
\* index is the embedding that was added together with record i.
C18_RecordsAlignedWithIndex ==
    /\ Len(texts) = Len(index)
    /\ \A i \in 1..Min2(Len(texts), Len(index)) :
          index[i] = Embed(texts[i].text)

\* the rows the history store hands the read path for the conversation of
\* the last read
HistoryOfLastRead ==
    get_conversation_messages(messages, last.conv,
                              CONVERSATION_CONTEXT_WINDOW_SIZE, 0, TRUE)

LastReadCalled(what) == \E i \in 1..Len(last.calls) : last.calls[i] = what

\* C13: a read for a conversation with the history context enabled, for which
\* the history store returns at least half a window of turns, returns without
\* a call to the embedding provider, the vector store or the graph store.
C13_ShortCircuitSkipsSearch ==
    (/\ IsRead(last.op)
     /\ last.use_mysql_context
     /\ last.conv # None
     /\ 2 * Len(HistoryOfLastRead) >= CONVERSATION_CONTEXT_WINDOW_SIZE)
    => /\ ~LastReadCalled("embed")
       /\ ~LastReadCalled("vector_search")
       /\ ~LastReadCalled("graph_recent")

C13_Witness ==
    /\ last.op = "retrieve_memories"
    /\ last.use_mysql_context
    /\ last.conv # None
    /\ 2 * Len(HistoryOfLastRead) >= CONVERSATION_CONTEXT_WINDOW_SIZE
    /\ Len(HistoryOfLastRead) < CONVERSATION_CONTEXT_WINDOW_SIZE
    /\ Len(texts) > Len(HistoryOfLastRead)
    /\ last.calls = <<"history_read">>
    /\ Len(last.found) = Len(HistoryOfLastRead)

TimestampsOf(memories) == [i \in 1..Len(memories) |-> memories[i].timestamp]

\* the turns of the conversation of the last read, oldest first
TurnsOfLastRead == OfConversation(messages, last.conv)

\* C14: when the conversation holds at least a window of prior turns, the
\* context read for its next turn is exactly the window of its most recent
\* turns, oldest first.
C14_ContextIsLatestWindow ==
    (/\ last.op \in {"get_enhanced_context", "get_context"}
     /\ last.use_mysql_context
     /\ last.conv # None
     /\ Len(TurnsOfLastRead) >= CONVERSATION_CONTEXT_WINDOW_SIZE)
    => TimestampsOf(last.found)
         = TimestampsOf(SubSeq(TurnsOfLastRead,
               Len(TurnsOfLastRead) - CONVERSATION_CONTEXT_WINDOW_SIZE + 1,
               Len(TurnsOfLastRead)))

\* C15: the list of memories that get_enhanced_context and get_context hand
\* back never has more than max_memories entries.
C15_AtMostMaxMemories ==
    last.op \in {"get_enhanced_context", "get_context"}
    => Len(last.found) <= last.k

SourceRank(source) ==
    IF source = "mysql_history" THEN 1
    ELSE IF source = "vector_search" THEN 2 ELSE 3

\* C16: the list _retrieve_memories hands back holds no timestamp twice, and
\* a turn found by more than one source is there as the copy of the source
\* asked first: every row of the history read is there as the history copy,
\* and the copies of a later source come after those of an earlier one.
C16_MergedOncePerTimestamp ==
    last.op = "retrieve_memories"
    => /\ \A i, j \in 1..Len(last.found) :
             i # j => last.found[i].timestamp # last.found[j].timestamp
       /\ \A i, j \in 1..Len(last.found) :
             i < j => SourceRank(last.found[i].source)
                        <= SourceRank(last.found[j].source)
       /\ (last.use_mysql_context /\ last.conv # None)
             => \A i \in 1..Len(HistoryOfLastRead) :
                   /\ i <= Len(last.found)
                   /\ last.found[i].timestamp = HistoryOfLastRead[i].timestamp
                   /\ last.found[i].source = "mysql_history"

\* a turn of the history read is also a record of the vector store that the
\* search of the read was free to return, and the list has entries of both
\* sources
C16_Witness ==
    /\ last.op = "retrieve_memories"
    /\ last.use_mysql_context
    /\ last.conv # None
    /\ Len(HistoryOfLastRead) = 1
    /\ LastReadCalled("vector_search")
    /\ \E i \in 1..Len(texts) :
          /\ texts[i].timestamp = HistoryOfLastRead[1].timestamp
          /\ texts[i].conversation_id = last.conv
    /\ Len(last.found) = 1
    /\ last.k >= 2

\* C17: when the short circuit does not apply and the vector search has a
\* hit, the read expands the most similar hit through get_related_memories
\* of the graph store.
C17_TopHitExpandedThroughGraph ==
    (/\ last.op = "retrieve_memories"
     /\ LastReadCalled("vector_search")
     /\ last.found # <<>>
     /\ last.found[1].source = "vector_search")
    => LastReadCalled("graph_related")

Quiet == pc.add = "idle" /\ pc.clear = "idle"

\* the record list and the index have the same length and the vector at
\* every position is the vector of the record there
Aligned(st) ==
    /\ Len(st.texts) = Len(st.index)
    /\ \A i \in 1..Len(st.texts) : st.index[i] = Embed(st.texts[i].text)

\* every record added for a conversation that was not cleared is there
NothingLost(st) ==
    \A i \in 1..Len(issued) :
       issued[i].conversation_id \notin ConcClearConvs
       => \E j \in 1..Len(st.texts) : st.texts[j] = issued[i]

\* C19: however the steps of an add_text and of a clear_memory of a
\* conversation interleave, once both have returned no record added for
\* another conversation is lost, the record list is aligned with the index,
\* and the file holds the store as it is, as after the calls one by one.
C19_ConcurrentMutationsSerialized ==
    Quiet => /\ Aligned(Store)
             /\ NothingLost(Store)
             /\ blob = Store

\* C20: the timestamps generate_timestamp returns are unique and monotonic:
\* a timestamp returned later sorts after every timestamp returned earlier,
\* also when the two calls read the same time.
C20_TimestampsUniqueAndMonotonic ==
    \A i, j \in 1..Len(stamps) :
       i < j => SortsBefore(stamps[i], stamps[j])

\* C21: whenever save_conversation returns a timestamp, the vector store
\* holds a record with that timestamp and get_memory_by_timestamp fetches the
\* memory by it.
C21_ReturnedTimestampIsDurable ==
    (last.op = "chat" /\ last.ret # NoTimestamp)
    => /\ HasRecord(last.ret)
       /\ get_memory_by_timestamp(Graph, last.ret) # None

\* the writes of the turn that the stores up during it got: the record of
\* the vector store, the node of the graph store (when the turn duplicates
\* nothing), the row of the history store
RecordWritten == last.fault # "vector_write" => HasRecord(last.ret)
NodeWritten ==
    (last.fault # "graph_write" /\ DuplicateHits(last.cands, last.conv) = {})
    => last.created
RowWritten ==
    (last.fault # "history_write" /\ last.conv # None)
    => HasRow(last.hist_conv, last.ret)

\* C22 as stated: with any one provider or store down the turn does not
\* raise, the answer is returned, and every store that is up gets its write.
C22_FaultNeverAbortsTurn ==
    (last.op = "chat" /\ last.ret # NoTimestamp)
    => /\ ~last.raised
       /\ last.answered
       /\ RecordWritten
       /\ NodeWritten
       /\ RowWritten

\* C22, amended: with any one provider or store down the turn does not
\* raise and the answer is returned; with a store down every other store
\* gets its write, with the embedding provider down the history store alone.
C22_FaultNeverAbortsTurn_Amended ==
    (last.op = "chat" /\ last.ret # NoTimestamp)
    => /\ ~last.raised
       /\ last.answered
       /\ RowWritten
       /\ last.fault # "embedding" => (RecordWritten /\ NodeWritten)

C22_Witness ==
    /\ last.op = "chat"
    /\ last.fault = "vector_write"
    /\ last.conv # None
    /\ last.created
    /\ HasRow(last.hist_conv, last.ret)
    /\ Len(index) < Len(texts)

\* the provider or store that is down was called by the last read
FaultWasHit ==
    \/ last.fault = "history_read" /\ LastReadCalled("history_read")
    \/ last.fault = "embedding" /\ LastReadCalled("embed")
    \/ last.fault = "vector_search" /\ LastReadCalled("vector_search")
    \/ last.fault = "graph_read" /\ LastReadCalled("graph_recent")
    \/ last.fault = "rerank" /\ LastReadCalled("rerank")

\* C23 as stated: a read of the context during which a store or provider it
\* calls fails does not raise and returns the empty context.
C23_RetrievalErrorGivesEmptyContext ==
    (IsRead(last.op) /\ FaultWasHit)
    => /\ ~last.raised
       /\ last.found = <<>>

\* C23, amended: a read of the context during which a store or provider it
\* calls fails does not raise; it returns the empty context when the
\* embedding provider or the graph store fails.
C23_RetrievalErrorNeverRaises ==
    (IsRead(last.op) /\ FaultWasHit)
    => /\ ~last.raised
       /\ last.fault \in {"embedding", "graph_read"} => last.found = <<>>

C23_Witness ==
    /\ last.op = "get_enhanced_context"
    /\ last.fault = "embedding"
    /\ LastReadCalled("embed")
    /\ texts # <<>>
    /\ ~last.raised
    /\ last.found = <<>>

IsRerank(op) ==
    op \in {"utils_rerank_documents", "rerank_documents", "rerank_memories"}

\* C24: when reranking is disabled or the rerank request fails, the caller
\* of the rerank step receives the first topK candidates in their original
\* order, each with the neutral relevance score 1.0.
C24_RerankDegradesToNeutralOrder ==
    (/\ IsRerank(last.op)
     /\ last.documents # <<>>
     /\ ~last.enabled \/ last.failed)
    => last.result = DefaultRanking(Len(last.documents), last.top_n)

IsEntryPoint(entry) ==
    entry \in {"/api/chat/chat", "/api/chat/conversation_chat",
               "/v1/chat/completions"}

\* C25: a chat request through any entry point that names a conversation
\* which does not exist ends in an error shown to the user, creates no
\* conversation and writes nothing to the vector, graph or history store.
C25_MissingConversationIsRejected ==
    [][(/\ last'.op = "chat"
        /\ IsEntryPoint(last'.entry)
        /\ last'.requested # None
        /\ last'.requested \notin conversations)
       => /\ last'.raised
          /\ UNCHANGED <<texts, index, nodes, edges, conversations,
                         messages>>]_vars

\* C26: get_memory_statistics reports is_consistent exactly when the
\* number of records of the vector store equals the number of nodes of the
\* graph store, and the call changes none of the three stores.
C26_StatisticsCompareAndLeaveStores ==
    [][last'.op = "get_memory_statistics"
       => /\ last'.is_consistent <=> (Len(texts) = Cardinality(nodes))
          /\ UNCHANGED <<texts, index, nodes, edges, conversations,
                         messages>>]_vars

C26_Witness ==
    /\ last.op = "get_memory_statistics"
    /\ ~last.is_consistent
    /\ last.count = Len(texts)
    /\ last.matching = Cardinality(nodes)
    /\ Len(texts) > Cardinality(nodes)
    /\ nodes # {}

\* C27: get_related_memories on a memory of the graph returns, without
\* raising, only memories reachable from it within max_depth hops over
\* edges of similarity >= min_similarity, and only memories of the given
\* conversation when one is given and include_cross_conversation is false.
C27_RelatedAreReachableAndFiltered ==
    last.op = "get_related_memories"
    => /\ ~last.raised
       /\ last.timestamps \subseteq
              RelatedWithin(Graph, {last.ret}, last.max_depth,
                            last.min_similarity)
       /\ (last.conv # None /\ ~last.include_cross)
          => \A n \in nodes :
                n.timestamp \in last.timestamps
                => n.conversation_id = last.conv

\* C28: constructing the vector store when the file is missing or cannot
\* be read does not raise and gives an empty index and an empty record list.
C28_ConstructionSurvivesBadFile ==
    (last.op = "construct" /\ last.file \in {"missing", "corrupt"})
    => /\ ~last.raised
       /\ texts = <<>>
       /\ index = <<>>

C28_Witness ==
    /\ last.op = "construct"
    /\ last.file = "corrupt"
    /\ last.before # <<>>
    /\ ~last.raised
    /\ texts = <<>>
    /\ index = <<>>

C30_WrongDimensionIsFitted ==
    (last.op = "add_text" /\ Len(last.embedding) # Dimension)
    => /\ last.ok
       /\ Len(texts) = Len(last.before) + 1
       /\ SubSeq(texts, 1, Len(last.before)) = last.before
       /\ texts[Len(texts)].timestamp = last.ret
       /\ Len(index) = last.count + 1
       /\ Len(index[Len(index)]) = Dimension
       /\ \A i \in 1..Dimension :
             index[Len(index)][i] = IF i <= Len(last.embedding)
                                    THEN last.embedding[i]
                                    ELSE 0

C30_Witness ==
    /\ last.op = "add_text"
    /\ last.ok
    /\ Len(last.embedding) > Dimension
    /\ Len(index) = 2
    /\ Len(texts) = 2
    /\ Len(index[1]) = Dimension
    /\ index[1][1] # 0
    /\ index[1][Dimension] = 0
    /\ index[2] = SubSeq(last.embedding, 1, Dimension)

IsBlank(text) == \A i \in 1..Len(text) : text[i] = " "

\* C31: get_embedding raises on an empty or whitespace-only text without a
\* request; a request answered "input too long" is sent again with the text
\* cut to half its length, or raises once the half would be shorter than
\* MinHalfLength; and every call ends, whatever the provider answers.
C31_EmbeddingRejectsAndHalves ==
    /\ [](last.op \in {"embedding_request", "get_embedding_returned",
                       "get_embedding_raised"}
          => /\ IsBlank(last.um) <=> (last.raised /\ last.count = 0)
             /\ IsBlank(last.um) => last.op = "get_embedding_raised")
    /\ [][(/\ last.op = "embedding_request"
           /\ last'.status = HTTP_413 /\ last'.failed
           /\ last' # last)
          => IF Len(last.before) \div 2 < MinHalfLength
             THEN last'.op = "get_embedding_raised"
             ELSE /\ last'.op = "embedding_request"
                  /\ last'.before = SubSeq(last.before, 1,
                                           Len(last.before) \div 2)
                  /\ last'.count = last.count + 1]_vars
    /\ (last.op = "embedding_request")
          ~> (last.op \in {"get_embedding_returned", "get_embedding_raised"})

C31_Witness ==
    /\ last.op = "get_embedding_raised"
    /\ last.status = HTTP_413
    /\ last.failed
    /\ last.count >= 3
    /\ Len(last.before) \div 2 < MinHalfLength

\* C32: when delete_conversation(c) completed while a turn of c waited for
\* the language model, then after the turn no vector-store record and no
\* graph node carries c, and the turn's memory record and history row carry
\* the same conversation id.
C32_DeletedConversationStaysGone ==
    (last.op = "chat" /\ last.entry = "get_chat_response"
       /\ last.deleted_meanwhile)
    => /\ \A i \in 1..Len(texts) : texts[i].conversation_id # last.conv
       /\ \A n \in nodes : n.conversation_id # last.conv
       /\ \A i \in 1..Len(texts) : \A j \in 1..Len(messages) :
             (texts[i].timestamp = last.ret /\ messages[j].timestamp = last.ret)
             => texts[i].conversation_id = messages[j].conversation_id

\* C33: every completed chat turn of an existing conversation adds exactly
\* one row to the history store, also when save_conversation returned the
\* empty timestamp, and also when it did so for several turns of the
\* conversation.
C33_EveryTurnAddsOneRow ==
    (last.op = "chat" /\ last.conv # None /\ last.hist_conv = last.conv)
    => /\ Len(messages) = last.rows_before + 1
       /\ messages[Len(messages)].conversation_id = last.conv
       /\ messages[Len(messages)].user_message = last.um

RecordsOf(c) == {i \in 1..Len(texts) : texts[i].conversation_id = c}

\* C35: a search filtered to conversation c returns the min(k, n_c) nearest
\* records of c, n_c being the number of records of c in the store, however
\* many records of other conversations are nearer to the query.
C35_FilteredSearchFindsOwnRecords ==
    (last.op = "search" /\ last.conv # None /\ last.k >= 1
       /\ Len(texts) = Len(index))
    => /\ Len(last.found) = Min2(last.k, Cardinality(RecordsOf(last.conv)))
       /\ \A i \in 1..Len(last.found) : \A j \in RecordsOf(last.conv) :
             \/ \E h \in 1..Len(last.found) :
                   last.found[h].timestamp = texts[j].timestamp
             \/ last.found[i].similarity
                   >= Similarity(Distance(index[j], last.query))

\* the place among the records retained of the record at position i, when
\* the records of conversation c go
PlaceAfter(c, i) ==
    Cardinality({h \in 1..i : texts[h].conversation_id # c})

\* C36: clearing the memories of conversation c retains every vector-store
\* record of another conversation or of the global scope, with its text,
\* timestamp and vector and in the same relative order, and every graph
\* node of another conversation with the edges between such nodes; the
\* history store is left alone.
C36_ClearLeavesOthers ==
    [][(last'.op = "clear_conversation" /\ last' # last)
       => /\ texts' = SeqFilter(texts, {rec \in Range(texts) :
                          rec.conversation_id # last'.conv})
          /\ \A i \in 1..Len(texts) :
                texts[i].conversation_id # last'.conv
                => /\ texts'[PlaceAfter(last'.conv, i)] = texts[i]
                   /\ IF i <= Len(index)
                      THEN /\ PlaceAfter(last'.conv, i) <= Len(index')
                           /\ index'[PlaceAfter(last'.conv, i)] = index[i]
                      ELSE PlaceAfter(last'.conv, i) > Len(index')
          /\ \A n \in nodes : n.conversation_id # last'.conv => n \in nodes'
          /\ \A e \in edges :
                (\A n \in nodes : n.timestamp \in {e.src, e.dst}
                                  => n.conversation_id # last'.conv)
                => e \in edges'
          /\ messages' = messages
          /\ conversations' = conversations]_vars

\* a clear that removed memories and left records, nodes and edges of others
C36_Witness ==
    /\ last.op = "clear_conversation"
    /\ last.former # {}
    /\ Len(texts) >= 2
    /\ \E i \in 1..Len(texts) : texts[i].conversation_id = None
    /\ \E i \in 1..Len(texts) : texts[i].conversation_id \notin {None, last.conv}
    /\ edges # {}

\* C37: after a restore_memories that returns True both stores hold what
\* they held when the backup was taken, and a restore_memories that returns
\* False leaves the vector store and the graph store as they were.
C37_RestoreIsRoundTripOrNothing ==
    [][(last'.op = "restore_memories" /\ last' # last)
       => IF last'.ok
          THEN /\ texts' = backup.then.texts
               /\ index' = backup.then.index
               /\ nodes' = backup.then.nodes
               /\ edges' = backup.then.edges
          ELSE /\ texts' = texts
               /\ index' = index
               /\ nodes' = nodes
               /\ edges' = edges]_vars

\* C38: once the calls of save_message have returned, sequential or
\* concurrent, a call that returned True left exactly one row for its
\* (conversation_id, timestamp), and a call that returned False inserted
\* nothing.
C38_SaveMessageIdempotent ==
    (\A caller \in Callers : pc.save[caller].at \in {"idle", "done"})
    => \A caller \in Callers :
          pc.save[caller].at = "done"
          => IF pc.save[caller].ret
             THEN count_messages(messages, pc.save[caller].conversation_id,
                                 pc.save[caller].timestamp) = 1
             ELSE ~pc.save[caller].inserted

\* C39: a record the write path stored is returned by
\* get_memory_by_timestamp with the user_message and ai_response the turn
\* was saved with (the history row of the timestamp has them), and a search
\* wide enough to fetch every record returns it.
C39_StoredRecordIsRetrievable ==
    last.op = "get_memory_by_timestamp"
    => \A i \in 1..Len(texts) : \A j \in 1..Len(messages) :
          (texts[i].timestamp = last.ret /\ messages[j].timestamp = last.ret)
          => /\ Len(last.found) = 1
             /\ last.found[1].user_message = messages[j].user_message
             /\ last.found[1].ai_response = messages[j].ai_response
             /\ \E order \in FaissOrders(index, index[i]) :
                   \E h \in 1..Len(texts) :
                      /\ h <= Len(search(Store, index[i], Len(texts), None,
                                         order))
                      /\ search(Store, index[i], Len(texts), None,
                                order)[h].timestamp = last.ret

\* C40: save_conversation with an empty user_message or an empty
\* ai_response returns the empty timestamp and leaves the vector store and
\* the graph store as they were, without an embedding call, a record or a
\* node.
C40_EmptyMessageSavesNothing ==
    [][(/\ saves' = saves + 1
        /\ last'.op = "chat"
        /\ (last'.um = <<>> \/ last'.ar = <<>>))
       => /\ last'.ret = NoTimestamp
          /\ ~last'.raised
          /\ texts' = texts
          /\ index' = index
          /\ nodes' = nodes
          /\ edges' = edges
          /\ \A i \in 1..Len(last'.calls) :
                last'.calls[i] \notin {"embed", "vector_write", "graph_write"}
       ]_vars

\* a save with an empty answer, made when the stores already held a memory
C40_Witness ==
    /\ last.op = "chat"
    /\ last.um # <<>>
    /\ last.ar = <<>>
    /\ last.ret = NoTimestamp
    /\ texts # <<>>
    /\ nodes # {}

====
